---------------------------- MODULE Spec2Model ----------------------------
(***************************************************************************)
(* Model of the proxy gateway's shared-state components:                   *)
(*   - BrowserPoolManager   (app/services/browser_pool.py)                 *)
(*   - ProxyConfig sticky binder and the services that own one             *)
(*     (config/settings.py, app/services/*_proxy*.py, app/core/app.py)     *)
(*   - RateLimiterMiddleware (app/middleware/rate_limiter.py)              *)
(*   - SessionManager       (app/services/session_manager.py)              *)
(*   - WebSocketManager and the websocket_proxy handler                    *)
(*     (app/core/websocket_manager.py, app/core/app.py)                    *)
(*   - fetch_page, make_request (app/services) and proxy_page (app.py)     *)
(*   - ContentRewriter and DirectProxyService._rewrite_urls                *)
(*     (app/services/content_rewriter.py, app/services/direct_proxy.py)    *)
(* Each component has its own variables, initial predicate, next-state     *)
(* relation and specification; a component's specification leaves the      *)
(* other components' variables unchanged.                                  *)
(***************************************************************************)
EXTENDS Integers, Sequences, FiniteSets, TLC

(***************************************************************************)
(* State                                                                   *)
(***************************************************************************)
\* BrowserPoolManager
VARIABLES
    initialized,    \* initialize() has run (self.browser is set)
    pool,           \* self.pool: instance id -> BrowserInstance
    session_map,    \* self.session_map: session id -> instance id
    next_id,        \* the next fresh instance id (uuid4)
    lock,           \* holder of self._lock, NoTask when free
    pc,             \* per task: where it stands in acquire / release
    arg,            \* per task: the arguments of the suspended call
    pool_now        \* datetime.now() as seen by the pool

poolVars == << initialized, pool, session_map, next_id, lock, pc, arg,
               pool_now >>

\* ProxyConfig and the services owning one
VARIABLES
    proxy_provider,       \* settings.proxy_provider
    proxy_rotation_type,  \* settings.proxy_rotation_type
    sticky_map,           \* per ProxyConfig: _session_sticky_map
    sticky_index,         \* per ProxyConfig: _sticky_index
    direct_clients,       \* DirectProxyService._clients: session -> identity
    client_pool,          \* ProxyService.client_pool: session -> identity
    returned,             \* history: identities get_proxy_url has returned
    resolves,             \* history: was get_proxy_url called for the session
    bind_order,           \* history: sessions in the order of their binding
    outbound              \* history: requests sent out, with their identity

binderVars == << proxy_provider, proxy_rotation_type, sticky_map, sticky_index,
                 direct_clients, client_pool, returned, resolves, bind_order,
                 outbound >>

\* RateLimiterMiddleware
VARIABLES
    request_history,  \* self.request_history: client -> deque of timestamps
    blocked_until,    \* self.blocked_until: client -> end of its block
    rl_now,           \* datetime.now() as seen by the rate limiter
    admitted,         \* history: per client, the time of every admission
    resp              \* history: the last response of dispatch

rateVars == << request_history, blocked_until, rl_now, admitted, resp >>

\* SessionManager
VARIABLES
    sessions,       \* self.sessions: session id -> Session
    redis_client,   \* self.redis_client is set
    redis_data,     \* the store: key session:{id} -> value and expiry
    next_sid,       \* the next fresh session id (uuid4)
    sm_lock,        \* holder of self._lock, NoTask when free
    sm_pc,          \* per task: where it stands in its call
    sm_arg,         \* per task: the arguments of the suspended call
    sweep_left,     \* cleanup_expired_sessions: expired ids still to remove
    sweep_now,      \* cleanup_expired_sessions: its `now`
    sm_now,         \* datetime.now() as seen by the session manager
    sm_ret          \* history: what the last call to return returned

sessionVars == << sessions, redis_client, redis_data, next_sid, sm_lock,
                  sm_pc, sm_arg, sweep_left, sweep_now, sm_now, sm_ret >>

\* WebSocketManager and the websocket_proxy handlers
VARIABLES
    connections,    \* ws_manager.connections: session id -> connection
    ws_open,        \* per connection: the socket, "new", "open" or "closed"
    ws_pc,          \* per connection: where its handler stands
    inbox,          \* per connection: commands sent and not yet received
    started,        \* per connection: commands whose handling has started
    inflight,       \* history: ordinals of the commands being handled
    finished,       \* history: ordinals of the commands handled, in order
    pushed,         \* history: ordinals of the commands with a result pushed
    hb_pc,          \* where heartbeat_sender stands
    hb_left,        \* heartbeat_sender: inactive sessions still to disconnect
    hub_now,        \* datetime.now() as seen by the hub
    http_n,         \* plain HTTP requests to the fetch routes so far
    admissions,     \* history: operations the rate limiter has admitted
    fetched,        \* history: operations that reached a fetch
    recv_at         \* history: per connection, the hub's clock when the
                    \* fetch or ping command last taken from the socket
                    \* was received

hubVars == << connections, ws_open, ws_pc, inbox, started, inflight,
              finished, pushed, hb_pc, hb_left, hub_now, http_n, admissions,
              fetched, recv_at >>

\* one call of fetch_page, make_request or proxy_page
VARIABLES
    f_pc,           \* where the call stands
    f_fn,           \* the function called
    f_first,        \* history: the first response of the call
    f_resp,         \* the response the call holds
    f_contacts,     \* history: requests the call has sent upstream
    f_where,        \* history: where the call's exception was raised
    f_result,       \* what the call gave its caller
    f_calls,        \* calls so far
    f_route,        \* the caller: a fetch route, a command, the page route
    f_status        \* the HTTP status the fetch route answered with

fetchVars == << f_pc, f_fn, f_first, f_resp, f_contacts, f_where, f_result,
                f_calls, f_route, f_status >>

\* one reference of a page on its way through a rewriter
VARIABLES
    rw_pc,          \* "page", "rewritten" or "requested"
    rw_by,          \* the rewriter
    rw_elem,        \* the element and the attribute holding the reference
    rw_ref,         \* the reference as the page had it
    rw_out,         \* what the attribute holds after the rewrite
    rw_wraps,       \* how many gateway URLs are wrapped around it
    rw_blocks,      \* script blocks the passes have put into the document
    rw_passes,      \* passes over the document so far
    rw_got          \* the URL the route decoded from the request

rewriteVars == << rw_pc, rw_by, rw_elem, rw_ref, rw_out, rw_wraps, rw_blocks,
                  rw_passes, rw_got >>

vars == << poolVars, binderVars, rateVars, sessionVars, hubVars, fetchVars,
           rewriteVars >>

\* what each component leaves alone
nonPoolVars == << binderVars, rateVars, sessionVars, hubVars, fetchVars,
    rewriteVars >>
nonBinderVars == << poolVars, rateVars, sessionVars, hubVars, fetchVars,
    rewriteVars >>
nonRateVars == << poolVars, binderVars, sessionVars, hubVars, fetchVars,
    rewriteVars >>
nonSessionVars == << poolVars, binderVars, rateVars, hubVars, fetchVars,
    rewriteVars >>
nonRewriteVars ==
    << poolVars, binderVars, rateVars, sessionVars, hubVars, fetchVars >>
nonFetchVars == << poolVars, binderVars, rateVars, sessionVars, hubVars,
    rewriteVars >>

(***************************************************************************)
(* Bounds of the model                                                     *)
(***************************************************************************)
\* settings.browser_pool_size (10 by default), scaled down
MaxPoolSize == 3

\* len(settings.proxy_sticky_sessions) (10 by default), scaled down
NumTokens == 2
\* RateLimiterMiddleware.requests_per_minute, scaled down
RequestsPerMinute == 3
\* RateLimiterMiddleware.burst_size, scaled down
BurstSize == 2
\* SessionManager.max_sessions (10000), scaled down
MaxSessions == 1
\* commands the clients send in a run
MaxCmds == 2
\* characters of a reference after its host
MaxTail == 3
\* rewrite passes over one document
MaxPasses == 2

(***************************************************************************)
(* Program constants                                                       *)
(***************************************************************************)
\* ProxyService.max_clients
MaxClients == 100
\* _check_rate_limit: the window, timedelta(minutes=1)
WindowSeconds == 60
\* _check_rate_limit: the burst window, timedelta(seconds=5)
BurstSeconds == 5
\* dispatch: the block, timedelta(seconds=60)
BlockSeconds == 60
\* _cleanup_old_data: timedelta(minutes=5)
SweepSeconds == 300
\* BrowserPoolManager.idle_timeout
IdleTimeout == 300
\* floor kept by _cleanup_idle_instances
MinKeep == 2
\* initialize() pre-creates min(3, max_pool_size) instances
PreCreate == 3
\* SessionManager.session_timeout
SessionTimeout == 3600
\* WebSocketManager.ping_timeout
PingTimeout == 120

Min(a, b) == IF a < b THEN a ELSE b
Max(a, b) == IF a > b THEN a ELSE b

MinOf(S) == CHOOSE x \in S : \A y \in S : x <= y

\* the elements of a finite set of integers in ascending order
RECURSIVE SetToSeq(_)
SetToSeq(S) == IF S = {} THEN << >>
               ELSE LET m == MinOf(S) IN << m >> \o SetToSeq(S \ {m})

SeqToSet(q) == { q[i] : i \in 1..Len(q) }

(***************************************************************************)
(* ------------------------  BrowserPoolManager  ------------------------- *)
(***************************************************************************)
\* one more session than the pool can serve at once
Sessions == 1..(MaxPoolSize + 1)
NoSession == 0
\* two concurrent callers of the pool
Tasks == {1, 2}
NoTask == 0
\* uuid4 supply: one instance more than a full pool holds
MaxIds == MaxPoolSize + 1
\* the clock advances in steps just longer than the idle timeout
TickStep == IdleTimeout + 1
MaxTime == TickStep

NoArg == [sid |-> NoSession, mobile |-> FALSE]

\* BrowserInstance(...) as built by _create_instance
NewInstance(mobile, now) ==
    [session_id |-> NoSession, is_busy |-> FALSE, is_mobile |-> mobile,
     last_used |-> now]

\* BrowserInstance.mark_busy
mark_busy(inst, sid, now) ==
    [inst EXCEPT !.is_busy = TRUE, !.session_id = sid, !.last_used = now]

\* mutant of mark_free: the owner is not cleared
mark_free_keeps_owner(inst) ==
    [inst EXCEPT !.is_busy = FALSE]

\* BrowserInstance.mark_free
mark_free(inst) ==
    [inst EXCEPT !.is_busy = FALSE, !.session_id = NoSession]

\* BrowserInstance.idle_time
idle_time(inst, now) == now - inst.last_used

\* get_pool_size
PoolSize == Cardinality(DOMAIN pool)

InitPool ==
    /\ initialized = FALSE
    /\ pool = << >>
    /\ session_map = << >>
    /\ next_id = 1
    /\ lock = NoTask
    /\ pc = [t \in Tasks |-> "idle"]
    /\ arg = [t \in Tasks |-> NoArg]
    /\ pool_now = 0

\* initialize() -> _pre_create_instances(min(3, max_pool_size)): every
\* _create_instance of the gather may fail, failed ones are skipped.  The
\* application awaits initialize() during startup, before any request.
Initialize ==
    /\ initialized = FALSE
    /\ \E k \in 0..Min(PreCreate, MaxPoolSize) :
          /\ pool' = [i \in next_id..(next_id + k - 1) |->
                          NewInstance(FALSE, pool_now)]
          /\ next_id' = next_id + k
    /\ initialized' = TRUE
    /\ UNCHANGED << session_map, lock, pc, arg, pool_now >>
    /\ UNCHANGED nonPoolVars

\* the free instances acquire's first scan accepts
FreeMatching(m) ==
    { i \in DOMAIN pool : ~pool[i].is_busy /\ pool[i].is_mobile = m }

\* the free instances the wait loop's scan accepts
FreeAny == { i \in DOMAIN pool : ~pool[i].is_busy }

\* mutant of HeldBy: the lock is given up before the suspension
HeldByNobody(t) == NoTask

\* `async with self._lock` spans the whole body of acquire: the lock stays
\* with the task across `await self._create_instance` and `await sleep`
HeldBy(t) == t

\* the size test that guards the creation of a new instance
HasRoom == PoolSize < MaxPoolSize

\* acquire(s, m) by task t, from the moment it holds the lock up to its
\* first suspension (creation, wait loop) or its return
AcquireBody(t, s, m) ==
    IF s \in DOMAIN session_map /\ session_map[s] \in DOMAIN pool
    THEN \* the session already has an instance
         /\ pool' = [pool EXCEPT ![session_map[s]].last_used = pool_now]
         /\ pc' = [pc EXCEPT ![t] = "idle"]
         /\ arg' = [arg EXCEPT ![t] = NoArg]
         /\ UNCHANGED << session_map, lock >>
    ELSE IF FreeMatching(m) # {}
    THEN \* first free instance of the class, in dict order
         LET i == MinOf(FreeMatching(m)) IN
         /\ pool' = [pool EXCEPT ![i] = mark_busy(pool[i], s, pool_now)]
         /\ session_map' = (s :> i) @@ session_map
         /\ pc' = [pc EXCEPT ![t] = "idle"]
         /\ arg' = [arg EXCEPT ![t] = NoArg]
         /\ UNCHANGED lock
    ELSE IF HasRoom
    THEN \* await self._create_instance(...), the lock stays held
         /\ lock' = HeldBy(t)
         /\ pc' = [pc EXCEPT ![t] = "creating"]
         /\ arg' = [arg EXCEPT ![t] = [sid |-> s, mobile |-> m]]
         /\ UNCHANGED << pool, session_map >>
    ELSE \* pool full: enter the wait loop, the lock stays held
         /\ lock' = HeldBy(t)
         /\ pc' = [pc EXCEPT ![t] = "waiting"]
         /\ arg' = [arg EXCEPT ![t] = [sid |-> s, mobile |-> m]]
         /\ UNCHANGED << pool, session_map >>

\* a task calls acquire(session_id, is_mobile) while the lock is free:
\* asyncio.Lock.acquire does not suspend, the body runs at once
Acquire(t, s, m) ==
    /\ initialized
    /\ pc[t] = "idle"
    /\ lock = NoTask
    /\ AcquireBody(t, s, m)
    /\ UNCHANGED << initialized, next_id, pool_now >>
    /\ UNCHANGED nonPoolVars

\* a task calls acquire while the lock is held: it suspends on the lock
AcquireBlocked(t, s, m) ==
    /\ initialized
    /\ pc[t] = "idle"
    /\ lock # NoTask
    /\ pc' = [pc EXCEPT ![t] = "acq_lock"]
    /\ arg' = [arg EXCEPT ![t] = [sid |-> s, mobile |-> m]]
    /\ UNCHANGED << initialized, pool, session_map, next_id, lock, pool_now >>
    /\ UNCHANGED nonPoolVars

\* a task suspended on the lock in acquire gets it
AcquireResume(t) ==
    /\ pc[t] = "acq_lock"
    /\ lock = NoTask
    /\ AcquireBody(t, arg[t].sid, arg[t].mobile)
    /\ UNCHANGED << initialized, next_id, pool_now >>
    /\ UNCHANGED nonPoolVars

\* _create_instance returned: the new instance is marked busy and inserted
AcquireCreated(t) ==
    /\ pc[t] = "creating"
    /\ next_id <= MaxIds
    /\ pool' = (next_id :> mark_busy(NewInstance(arg[t].mobile, pool_now),
                                     arg[t].sid, pool_now)) @@ pool
    /\ session_map' = (arg[t].sid :> next_id) @@ session_map
    /\ next_id' = next_id + 1
    /\ lock' = NoTask
    /\ pc' = [pc EXCEPT ![t] = "idle"]
    /\ arg' = [arg EXCEPT ![t] = NoArg]
    /\ UNCHANGED << initialized, pool_now >>
    /\ UNCHANGED nonPoolVars

\* mutant of LockOnException: the lock stays with the task that failed
LockKeptOnException(t) == HeldBy(t)

\* `async with self._lock` when an exception passes through it: __aexit__
\* releases the lock
LockOnException(t) == NoTask

\* _create_instance raised: the exception leaves acquire, `async with`
\* releases the lock
AcquireCreateFailed(t) ==
    /\ pc[t] = "creating"
    /\ lock' = LockOnException(t)
    /\ pc' = [pc EXCEPT ![t] = "idle"]
    /\ arg' = [arg EXCEPT ![t] = NoArg]
    /\ UNCHANGED << initialized, pool, session_map, next_id, pool_now >>
    /\ UNCHANGED nonPoolVars

\* one round of the wait loop: sleep(0.5), then scan for any free instance;
\* without one the loop goes round again, the lock still held
AcquirePoll(t) ==
    /\ pc[t] = "waiting"
    /\ IF FreeAny # {}
       THEN LET i == MinOf(FreeAny) IN
            /\ pool' = [pool EXCEPT
                          ![i] = mark_busy(pool[i], arg[t].sid, pool_now)]
            /\ session_map' = (arg[t].sid :> i) @@ session_map
            /\ lock' = NoTask
            /\ pc' = [pc EXCEPT ![t] = "idle"]
            /\ arg' = [arg EXCEPT ![t] = NoArg]
       ELSE UNCHANGED << pool, session_map, lock, pc, arg >>
    /\ UNCHANGED << initialized, next_id, pool_now >>
    /\ UNCHANGED nonPoolVars

\* a function without the key k
DropKey(f, k) == [x \in DOMAIN f \ {k} |-> f[x]]

\* mutant of GoesOnAfterGoto: goto raises and the exception leaves release
LeavesAtGoto == FALSE

\* release's `try: await instance.page.goto("about:blank")` with its
\* `except Exception`: whether the page was cleared or goto raised, the
\* statements after the try block run
GoesOnAfterGoto == TRUE

\* release(s) with the lock held; page.goto("about:blank") may raise, the
\* exception is caught and logged, and both ways release goes on
ReleaseBody(t, s) ==
    /\ IF s \in DOMAIN session_map /\ session_map[s] \in DOMAIN pool
       THEN IF GoesOnAfterGoto
            THEN /\ pool' = [pool EXCEPT
                               ![session_map[s]] =
                                   mark_free(pool[session_map[s]])]
                 /\ session_map' = DropKey(session_map, s)
            ELSE UNCHANGED << pool, session_map >>
       ELSE UNCHANGED << pool, session_map >>
    /\ pc' = [pc EXCEPT ![t] = "idle"]
    /\ arg' = [arg EXCEPT ![t] = NoArg]

\* a task calls release(session_id) while the lock is free
Release(t, s) ==
    /\ initialized
    /\ pc[t] = "idle"
    /\ lock = NoTask
    /\ ReleaseBody(t, s)
    /\ UNCHANGED << initialized, next_id, lock, pool_now >>
    /\ UNCHANGED nonPoolVars

\* a task calls release while the lock is held: it suspends on the lock
ReleaseBlocked(t, s) ==
    /\ initialized
    /\ pc[t] = "idle"
    /\ lock # NoTask
    /\ pc' = [pc EXCEPT ![t] = "rel_lock"]
    /\ arg' = [arg EXCEPT ![t] = [sid |-> s, mobile |-> FALSE]]
    /\ UNCHANGED << initialized, pool, session_map, next_id, lock, pool_now >>
    /\ UNCHANGED nonPoolVars

\* a task suspended on the lock in release gets it
ReleaseResume(t) ==
    /\ pc[t] = "rel_lock"
    /\ lock = NoTask
    /\ ReleaseBody(t, arg[t].sid)
    /\ UNCHANGED << initialized, next_id, lock, pool_now >>
    /\ UNCHANGED nonPoolVars

\* mutant of KeepFloor: no floor, every idle instance goes
KeepFloorNone(to_remove, size) == to_remove

\* `while instances_to_remove and len(pool) - len(instances_to_remove) < 2:
\*      instances_to_remove.pop()`
RECURSIVE KeepFloor(_, _)
KeepFloor(to_remove, size) ==
    IF to_remove # << >> /\ size - Len(to_remove) < MinKeep
    THEN KeepFloor(SubSeq(to_remove, 1, Len(to_remove) - 1), size)
    ELSE to_remove

\* mutant of IdleCandidates: is_busy is not tested
IdleCandidatesBusyToo ==
    SetToSeq({ i \in DOMAIN pool :
                 idle_time(pool[i], pool_now) > IdleTimeout })

\* the instances _cleanup_idle_instances collects, in dict order
IdleCandidates ==
    SetToSeq({ i \in DOMAIN pool :
                 /\ ~pool[i].is_busy
                 /\ idle_time(pool[i], pool_now) > IdleTimeout })

\* _cleanup_idle_instances, run by _cleanup_loop once it holds the lock
CleanupIdle ==
    /\ initialized
    /\ lock = NoTask
    /\ LET gone == SeqToSet(KeepFloor(IdleCandidates, PoolSize)) IN
       pool' = [i \in DOMAIN pool \ gone |-> pool[i]]
    /\ UNCHANGED << initialized, session_map, next_id, lock, pc, arg,
                    pool_now >>
    /\ UNCHANGED nonPoolVars

\* time passes
PoolTick ==
    /\ pool_now + TickStep <= MaxTime
    /\ pool_now' = pool_now + TickStep
    /\ UNCHANGED << initialized, pool, session_map, next_id, lock, pc, arg >>
    /\ UNCHANGED nonPoolVars

\* the calls and steps of the caller tasks, asking for the classes in M
TaskStep(M) ==
    \/ \E t \in Tasks, s \in Sessions, m \in M : Acquire(t, s, m)
    \/ \E t \in Tasks, s \in Sessions, m \in M : AcquireBlocked(t, s, m)
    \/ \E t \in Tasks : AcquireResume(t)
    \/ \E t \in Tasks : AcquireCreated(t)
    \/ \E t \in Tasks : AcquireCreateFailed(t)
    \/ \E t \in Tasks : AcquirePoll(t)
    \/ \E t \in Tasks, s \in Sessions : Release(t, s)
    \/ \E t \in Tasks, s \in Sessions : ReleaseBlocked(t, s)
    \/ \E t \in Tasks : ReleaseResume(t)

\* the pool with concurrent callers, the cleanup loop and the clock; every
\* caller asks for the default class (is_mobile = False)
NextPool ==
    \/ Initialize
    \/ TaskStep({FALSE})
    \/ CleanupIdle
    \/ PoolTick

\* the pool with concurrent callers and the clock, the cleanup loop not
\* running
NextPoolCalls ==
    \/ Initialize
    \/ TaskStep({FALSE})
    \/ PoolTick

\* the pool with one call at a time, the cleanup loop and the clock
NextPoolSweep ==
    \/ Initialize
    \/ \E s \in Sessions : Acquire(1, s, FALSE)
    \/ AcquireCreated(1)
    \/ AcquireCreateFailed(1)
    \/ AcquirePoll(1)
    \/ \E s \in Sessions : Release(1, s)
    \/ CleanupIdle
    \/ PoolTick

\* the pool with callers of both classes, one call at a time, the clock
\* standing still
NextPoolClass ==
    \/ Initialize
    \/ \E s \in Sessions, m \in BOOLEAN : Acquire(1, s, m)
    \/ AcquireCreated(1)
    \/ AcquireCreateFailed(1)
    \/ AcquirePoll(1)
    \/ \E s \in Sessions : Release(1, s)
    \/ CleanupIdle

(***************************************************************************)
(* ----------------  ProxyConfig and the services owning one  ------------ *)
(***************************************************************************)
\* the ProxyConfig instances: DirectProxyService.proxy_config and
\* ProxyService.proxy_config
Binders == {"direct", "proxy"}
\* one session more than there are sticky tokens
BSessions == 1..(NumTokens + 1)
\* the history of a session on a config: never resolved, resolved once,
\* resolved again
ResolvedAfter(r) == IF r = "never" THEN "once" ELSE "again"

\* settings.proxy_sticky_sessions[i]: a token is named by its position
StickyAtShifted(i) == (i + 1) % NumTokens

StickyAt(i) == i % NumTokens

\* mutant of IsBound: the map is not consulted
IsBoundNever(m, s) == FALSE

\* `session_id not in self._session_sticky_map`, negated
IsBound(m, s) == s \in DOMAIN m

\* get_proxy_url takes the sticky branch
StickyMode == proxy_provider = "proxidise" /\ proxy_rotation_type = "sticky"

\* the map and the index of a ProxyConfig after get_proxy_url(s)
MapAfter(b, s) ==
    IF StickyMode /\ ~IsBound(sticky_map[b], s)
    THEN (s :> StickyAt(sticky_index[b])) @@ sticky_map[b]
    ELSE sticky_map[b]

IndexAfter(b, s) ==
    IF StickyMode /\ ~IsBound(sticky_map[b], s)
    THEN sticky_index[b] + 1
    ELSE sticky_index[b]

\* the part of the user name get_proxy_url builds that tells upstream
\* identities apart
IdentityOf(b, s) ==
    IF proxy_provider = "proxidise"
    THEN IF proxy_rotation_type = "sticky"
         THEN [kind |-> "s", id |-> MapAfter(b, s)[s]]
         ELSE [kind |-> "none", id |-> 0]
    ELSE IF proxy_rotation_type = "sticky"
         THEN [kind |-> "session", id |-> s]
         ELSE [kind |-> "none", id |-> 0]

\* self.proxy_config.get_proxy_url(s) on the ProxyConfig b: its effect
GetProxyUrl(b, s) ==
    /\ sticky_map' = [sticky_map EXCEPT ![b] = MapAfter(b, s)]
    /\ sticky_index' = [sticky_index EXCEPT ![b] = IndexAfter(b, s)]
    /\ returned' = [returned EXCEPT ![b][s] = @ \cup {IdentityOf(b, s)}]
    /\ resolves' = [resolves EXCEPT ![b][s] = ResolvedAfter(@)]
    /\ bind_order' = IF StickyMode /\ ~IsBound(sticky_map[b], s)
                     THEN [bind_order EXCEPT ![b] = Append(@, s)]
                     ELSE bind_order

InitBinderMaps ==
    /\ sticky_map = [b \in Binders |-> << >>]
    /\ sticky_index = [b \in Binders |-> 0]
    /\ direct_clients = << >>
    /\ client_pool = << >>
    /\ returned = [b \in Binders |-> [s \in BSessions |-> {}]]
    /\ resolves = [b \in Binders |-> [s \in BSessions |-> "never"]]
    /\ bind_order = [b \in Binders |-> << >>]
    /\ outbound = {}

\* the settings come from the environment
InitBinder ==
    /\ proxy_provider \in {"proxidise", "proxi.es"}
    /\ proxy_rotation_type \in {"sticky", "rotating"}
    /\ InitBinderMaps

\* the binder as the other components' specifications leave it
BinderAtRest ==
    /\ proxy_provider = "proxidise"
    /\ proxy_rotation_type = "sticky"
    /\ InitBinderMaps

\* DirectProxyService.get_client(s) and the request sent with the client:
\* what fetch_page does to the service and to the ProxyConfig
NavigateBody(s) ==
    /\ IF s \notin DOMAIN direct_clients
       THEN /\ GetProxyUrl("direct", s)
            /\ direct_clients' = (s :> IdentityOf("direct", s)) @@ direct_clients
       ELSE UNCHANGED << sticky_map, sticky_index, returned, resolves,
                         bind_order, direct_clients >>
    /\ outbound' = outbound \cup
                     {[sid |-> s, via |-> "direct", ident |-> direct_clients'[s]]}
    /\ UNCHANGED << proxy_provider, proxy_rotation_type, client_pool >>

\* a navigate command (or a direct-proxy route) of session s:
\* DirectProxyService.fetch_page -> get_client, then the request goes out
Navigate(s) ==
    /\ NavigateBody(s)
    /\ UNCHANGED nonBinderVars

\* ProxyService.get_client(s) -> create_client and the request sent with
\* the client: what make_request does to the service and the ProxyConfig
HttpRequestBody(s) ==
    /\ IF s \notin DOMAIN client_pool
       THEN /\ GetProxyUrl("proxy", s)
            /\ client_pool' =
                  IF Cardinality(DOMAIN client_pool) < MaxClients
                  THEN (s :> IdentityOf("proxy", s)) @@ client_pool
                  ELSE client_pool
            /\ outbound' = outbound \cup
                  {[sid |-> s, via |-> "proxy", ident |-> IdentityOf("proxy", s)]}
       ELSE /\ outbound' = outbound \cup
                  {[sid |-> s, via |-> "proxy", ident |-> client_pool[s]]}
            /\ UNCHANGED << sticky_map, sticky_index, returned, resolves,
                            bind_order, client_pool >>
    /\ UNCHANGED << proxy_provider, proxy_rotation_type, direct_clients >>

\* an http_request command (or a proxy route) of session s:
\* ProxyService.make_request -> get_client -> create_client
HttpRequest(s) ==
    /\ HttpRequestBody(s)
    /\ UNCHANGED nonBinderVars

\* DirectProxyService.cleanup(s): the client is closed and removed
DirectCleanupBody(s) ==
    /\ direct_clients' = DropKey(direct_clients, s)
    /\ UNCHANGED << proxy_provider, proxy_rotation_type, sticky_map,
                    sticky_index, client_pool, returned, resolves, bind_order,
                    outbound >>

\* the connection of session s ends: DirectProxyService.cleanup(s)
DirectCleanup(s) ==
    /\ s \in DOMAIN direct_clients
    /\ DirectCleanupBody(s)
    /\ UNCHANGED nonBinderVars

NextBinder ==
    \/ \E s \in BSessions : Navigate(s)
    \/ \E s \in BSessions : HttpRequest(s)
    \/ \E s \in BSessions : DirectCleanup(s)

(***************************************************************************)
(* ----------------------  RateLimiterMiddleware  ------------------------ *)
(***************************************************************************)
\* the client identity _get_client_id gives the requests; the records of
\* different identities are kept under different keys
Clients == {1}

\* the instants at which requests and sweeps happen: inside a burst
\* window, at its end and after it, around the end of the minute window
\* and of a block, two minutes on, and after the sweep's horizon
TimePoints ==
    { 0, 2, 4, BurstSeconds, BurstSeconds + 2,
      WindowSeconds - 1, WindowSeconds, WindowSeconds + 2, WindowSeconds + 4,
      WindowSeconds + BurstSeconds, WindowSeconds + BurstSeconds + 2,
      2 * WindowSeconds, 2 * WindowSeconds + 2,
      SweepSeconds + WindowSeconds + 2 }

NoResp == [client |-> 0, status |-> 0, retry_after |-> 0, remaining |-> 0,
           via |-> "none"]

InitRate ==
    /\ request_history = << >>
    /\ blocked_until = << >>
    /\ rl_now = 0
    /\ admitted = [c \in Clients |-> << >>]
    /\ resp = NoResp

\* the rate limiter as the other components' specifications leave it
RateAtRest == InitRate

\* `while history and history[0] < cutoff: history.popleft()`
RECURSIVE PopOld(_, _)
PopOld(history, cutoff) ==
    IF history # << >> /\ Head(history) < cutoff
    THEN PopOld(Tail(history), cutoff)
    ELSE history

\* self.request_history[client_id] of the defaultdict(deque)
HistoryOf(c) ==
    IF c \in DOMAIN request_history THEN request_history[c] ELSE << >>

\* `sum(1 for ts in history if ts > burst_cutoff)`
BurstCount(history, now) ==
    Cardinality({ i \in 1..Len(history) : history[i] > now - BurstSeconds })

\* mutant of ExceedsBurst: one request too many passes
ExceedsBurstLate(n) == n > BurstSize

\* mutant of ExceedsBurst: the last request of the burst is turned away
ExceedsBurstEarly(n) == n + 1 >= BurstSize

\* `burst_count >= self.burst_size`
ExceedsBurst(n) == n >= BurstSize

\* `len(history) >= self.requests_per_minute`
ExceedsRate(n) == n >= RequestsPerMinute

\* _check_rate_limit: the window after the purge, and the verdict
Purged(c) == PopOld(HistoryOf(c), rl_now - WindowSeconds)

IsAllowed(c) ==
    /\ ~ExceedsBurst(BurstCount(Purged(c), rl_now))
    /\ ~ExceedsRate(Len(Purged(c)))

\* mutant of IsBlocked: a block does not end with its time
IsBlockedForever(c) == c \in DOMAIN blocked_until

\* mutant of IsBlocked: the block is not looked at
IsBlockedNever(c) == FALSE

\* dispatch: `client_id in self.blocked_until` and
\* `datetime.now() < self.blocked_until[client_id]`
IsBlocked(c) == c \in DOMAIN blocked_until /\ rl_now < blocked_until[c]

\* dispatch up to call_next.  No section under self._lock suspends, so the
\* lock is never contended and the whole of it runs without interleaving.
DispatchBody(c) ==
    /\ IF IsBlocked(c)
       THEN \* still blocked: 429 with the remaining seconds
            /\ resp' = [client |-> c, status |-> 429,
                        retry_after |-> blocked_until[c] - rl_now,
                        remaining |-> 0, via |-> "blocked"]
            /\ UNCHANGED << request_history, blocked_until, admitted >>
       ELSE IF ~IsAllowed(c)
       THEN \* rejected by _check_rate_limit: block the client
            /\ request_history' = (c :> Purged(c)) @@ request_history
            /\ blocked_until' = (c :> rl_now + BlockSeconds) @@ blocked_until
            /\ resp' = [client |-> c, status |-> 429,
                        retry_after |-> BlockSeconds,
                        remaining |-> 0, via |-> "window"]
            /\ UNCHANGED admitted
       ELSE \* admitted: the timestamp is appended, an expired block dropped
            /\ request_history' =
                  (c :> Append(Purged(c), rl_now)) @@ request_history
            /\ blocked_until' = DropKey(blocked_until, c)
            /\ admitted' = [admitted EXCEPT ![c] = Append(@, rl_now)]
            /\ resp' = [client |-> c, status |-> 200, retry_after |-> 0,
                        remaining |-> RequestsPerMinute - Len(Purged(c)) - 1,
                        via |-> "admitted"]
    /\ UNCHANGED rl_now

\* a request to a route the middleware stands in front of
Dispatch(c) ==
    /\ DispatchBody(c)
    /\ UNCHANGED nonRateVars

\* _cleanup_old_data, run by _cleanup_loop
Sweep ==
    /\ LET swept == [c \in DOMAIN request_history |->
                        PopOld(request_history[c], rl_now - SweepSeconds)]
           keep == { c \in DOMAIN swept : swept[c] # << >> }
       IN request_history' = [c \in keep |-> swept[c]]
    /\ blocked_until' =
          [c \in { d \in DOMAIN blocked_until : ~(blocked_until[d] < rl_now) }
             |-> blocked_until[c]]
    /\ UNCHANGED << rl_now, admitted, resp >>
    /\ UNCHANGED nonRateVars

\* time passes
RateTick ==
    /\ \E t \in TimePoints : t > rl_now /\ rl_now' = t
    /\ UNCHANGED << request_history, blocked_until, admitted, resp >>
    /\ UNCHANGED nonRateVars

NextRate ==
    \/ \E c \in Clients : Dispatch(c)
    \/ Sweep
    \/ RateTick

(***************************************************************************)
(* --------------------------  SessionManager  --------------------------- *)
(***************************************************************************)
\* the session ids that callers ask for
Sids == {1, 2}
\* uuid4 supply: the ids create_session draws, one more than the registry
\* is meant to hold
FreshIds == 1 .. (MaxSessions + 1)
\* two concurrent callers of the session manager, and its _cleanup_loop
SmTasks == {1, 2}
Sweeper == 3
\* the instants at which calls happen: at the start, at the idle timeout
\* exactly and just past it
SmTimes == { 0, SessionTimeout, SessionTimeout + 1 }

NoSmArg == [sid |-> NoSession, at |-> 0]
\* what a call returned: ok, and whether it found the id in self.sessions
NoRet == [op |-> "none", ok |-> FALSE, hit |-> FALSE]

\* Session(id=...): last_activity and is_active of a new session
NewSession(now) == [last_activity |-> now, is_active |-> TRUE]

\* Session.update_activity
update_activity(session, now) == [session EXCEPT !.last_activity = now]

\* end_session: `session.is_active = False`
Deactivated(session) == [session EXCEPT !.is_active = FALSE]

\* mutant of Removed: the entry stays in the registry
RemovedNot(reg, s) == reg

\* `del self.sessions[session_id]`
Removed(reg, s) == DropKey(reg, s)

\* redis `delete`: it removes the key, or raises and the warning is logged
RedisDelete(ok, s) == IF ok THEN DropKey(redis_data, s) ELSE redis_data

\* _store_in_redis: `setex(key, self.session_timeout, value)`, or an
\* exception that is logged.  Of the value the model keeps is_active; the
\* stored last_activity is overwritten by update_activity on every load.
RedisStore(ok, s, session) ==
    IF ok
    THEN (s :> [is_active |-> session.is_active,
                expires |-> sm_now + SessionTimeout]) @@ redis_data
    ELSE redis_data

\* _load_from_redis finds the key (it is there and has not expired)
RedisHas(s) == s \in DOMAIN redis_data /\ sm_now < redis_data[s].expires

SmReturn(t, r) ==
    /\ sm_pc' = [sm_pc EXCEPT ![t] = "idle"]
    /\ sm_arg' = [sm_arg EXCEPT ![t] = NoSmArg]
    /\ sm_ret' = r

SmSuspend(t, where, a) ==
    /\ sm_pc' = [sm_pc EXCEPT ![t] = where]
    /\ sm_arg' = [sm_arg EXCEPT ![t] = a]
    /\ UNCHANGED sm_ret

InitSessionMaps ==
    /\ sessions = << >>
    /\ redis_data = << >>
    /\ next_sid = 1
    /\ sm_lock = NoTask
    /\ sm_pc = [t \in SmTasks \cup {Sweeper} |-> "idle"]
    /\ sm_arg = [t \in SmTasks |-> NoSmArg]
    /\ sweep_left = << >>
    /\ sweep_now = 0
    /\ sm_now = 0
    /\ sm_ret = NoRet

\* initialize(): the store is connected or it is not
InitSessions ==
    /\ redis_client \in BOOLEAN
    /\ InitSessionMaps

\* the session manager as the other components' specifications leave it
SessionsAtRest ==
    /\ redis_client = FALSE
    /\ InitSessionMaps

\* get_session(s): a hit in memory refreshes the activity and returns the
\* session; otherwise the store is asked, if there is one
GetSession(t, s) ==
    /\ sm_pc[t] = "idle"
    /\ IF s \in DOMAIN sessions
       THEN /\ sessions' = [sessions EXCEPT ![s] = update_activity(@, sm_now)]
            /\ SmReturn(t, [op |-> "get", ok |-> TRUE, hit |-> TRUE])
       ELSE IF redis_client
       THEN /\ SmSuspend(t, "get_load", [sid |-> s, at |-> 0])
            /\ UNCHANGED sessions
       ELSE /\ SmReturn(t, [op |-> "get", ok |-> FALSE, hit |-> FALSE])
            /\ UNCHANGED sessions
    /\ UNCHANGED << redis_client, redis_data, next_sid, sm_lock, sweep_left,
                    sweep_now, sm_now >>
    /\ UNCHANGED nonSessionVars

\* get_session resumes after `await self._load_from_redis`: the session
\* read from the store is put into memory and update_activity is called
GetLoaded(t) ==
    /\ sm_pc[t] = "get_load"
    /\ LET s == sm_arg[t].sid IN
       \E ok \in BOOLEAN :
          IF ok /\ RedisHas(s)
          THEN /\ sessions' =
                    (s :> [last_activity |-> sm_now,
                           is_active |-> redis_data[s].is_active])
                       @@ sessions
               /\ SmReturn(t, [op |-> "get", ok |-> TRUE, hit |-> FALSE])
          ELSE /\ UNCHANGED sessions
               /\ SmReturn(t, [op |-> "get", ok |-> FALSE, hit |-> FALSE])
    /\ UNCHANGED << redis_client, redis_data, next_sid, sm_lock, sweep_left,
                    sweep_now, sm_now >>
    /\ UNCHANGED nonSessionVars

\* end_session(s) from the moment it holds the lock up to its return or
\* its suspension in `await self.redis_client.delete`
EndBody(t, s) ==
    IF s \in DOMAIN sessions
    THEN IF redis_client
         THEN /\ sessions' = [sessions EXCEPT ![s] = Deactivated(@)]
              /\ sm_lock' = t
              /\ SmSuspend(t, "end_del", [sid |-> s, at |-> 0])
         ELSE /\ sessions' = Removed(sessions, s)
              /\ sm_lock' = NoTask
              /\ SmReturn(t, [op |-> "end", ok |-> TRUE, hit |-> TRUE])
    ELSE /\ UNCHANGED sessions
         /\ sm_lock' = NoTask
         /\ SmReturn(t, [op |-> "end", ok |-> TRUE, hit |-> FALSE])

\* a task calls end_session(s): with the lock free it runs at once,
\* otherwise it suspends on the lock
EndSession(t, s) ==
    /\ sm_pc[t] = "idle"
    /\ IF sm_lock = NoTask
       THEN EndBody(t, s)
       ELSE /\ SmSuspend(t, "end_lock", [sid |-> s, at |-> 0])
            /\ UNCHANGED << sessions, sm_lock >>
    /\ UNCHANGED << redis_client, redis_data, next_sid, sweep_left,
                    sweep_now, sm_now >>
    /\ UNCHANGED nonSessionVars

EndResume(t) ==
    /\ sm_pc[t] = "end_lock"
    /\ sm_lock = NoTask
    /\ EndBody(t, sm_arg[t].sid)
    /\ UNCHANGED << redis_client, redis_data, next_sid, sweep_left,
                    sweep_now, sm_now >>
    /\ UNCHANGED nonSessionVars

\* end_session resumes after the store's delete: `del self.sessions[...]`
\* raises KeyError if the entry is gone
EndDeleted(t) ==
    /\ sm_pc[t] = "end_del"
    /\ LET s == sm_arg[t].sid IN
       /\ \E ok \in BOOLEAN : redis_data' = RedisDelete(ok, s)
       /\ sessions' = Removed(sessions, s)
       /\ SmReturn(t, [op |-> "end", ok |-> s \in DOMAIN sessions,
                        hit |-> TRUE])
    /\ sm_lock' = NoTask
    /\ UNCHANGED << redis_client, next_sid, sweep_left, sweep_now, sm_now >>
    /\ UNCHANGED nonSessionVars

\* _remove_oldest_inactive finds a session to end
HasInactive == \E s \in DOMAIN sessions : ~sessions[s].is_active

\* create_session(s) with the lock held.  At the limit, with an inactive
\* session in memory, _remove_oldest_inactive calls end_session, which
\* asks for the lock its caller holds.
CreateBody(t, a) ==
    IF Cardinality(DOMAIN sessions) >= MaxSessions /\ HasInactive
    THEN /\ sm_lock' = t
         /\ SmSuspend(t, "create_stuck", a)
         /\ UNCHANGED sessions
    ELSE /\ sessions' = (a.sid :> NewSession(a.at)) @@ sessions
         /\ IF redis_client
            THEN /\ sm_lock' = t
                 /\ SmSuspend(t, "create_store", a)
            ELSE /\ sm_lock' = NoTask
                 /\ SmReturn(t, [op |-> "create", ok |-> TRUE, hit |-> FALSE])

\* a task calls create_session with a fresh id
CreateSession(t) ==
    /\ sm_pc[t] = "idle"
    /\ next_sid \in FreshIds
    /\ next_sid' = next_sid + 1
    /\ LET a == [sid |-> next_sid, at |-> sm_now] IN
       IF sm_lock = NoTask
       THEN CreateBody(t, a)
       ELSE /\ SmSuspend(t, "create_lock", a)
            /\ UNCHANGED << sessions, sm_lock >>
    /\ UNCHANGED << redis_client, redis_data, sweep_left, sweep_now, sm_now >>
    /\ UNCHANGED nonSessionVars

CreateResume(t) ==
    /\ sm_pc[t] = "create_lock"
    /\ sm_lock = NoTask
    /\ CreateBody(t, sm_arg[t])
    /\ UNCHANGED << redis_client, redis_data, next_sid, sweep_left,
                    sweep_now, sm_now >>
    /\ UNCHANGED nonSessionVars

\* create_session resumes after `await self._store_in_redis(session)`
CreateStored(t) ==
    /\ sm_pc[t] = "create_store"
    /\ LET a == sm_arg[t] IN
       /\ \E ok \in BOOLEAN :
             redis_data' = RedisStore(ok, a.sid, NewSession(a.at))
       /\ SmReturn(t, [op |-> "create", ok |-> TRUE, hit |-> FALSE])
    /\ sm_lock' = NoTask
    /\ UNCHANGED << sessions, redis_client, next_sid, sweep_left, sweep_now,
                    sm_now >>
    /\ UNCHANGED nonSessionVars

\* update_session(s, is_active=v) once get_session has given the session:
\* setattr, update_activity, then the store is written without the lock
UpdateApply(t, s, v) ==
    /\ sessions' = (s :> [last_activity |-> sm_now, is_active |-> v])
                      @@ sessions
    /\ IF redis_client
       THEN SmSuspend(t, "upd_store", [sid |-> s, at |-> 0, active |-> v])
       ELSE SmReturn(t, [op |-> "update", ok |-> TRUE, hit |-> TRUE])

\* a task calls update_session(s, is_active=v): get_session answers from
\* memory, or asks the store, or finds nothing
UpdateSession(t, s, v) ==
    /\ sm_pc[t] = "idle"
    /\ IF s \in DOMAIN sessions
       THEN UpdateApply(t, s, v)
       ELSE IF redis_client
       THEN /\ SmSuspend(t, "upd_load", [sid |-> s, at |-> 0, active |-> v])
            /\ UNCHANGED sessions
       ELSE /\ SmReturn(t, [op |-> "update", ok |-> FALSE, hit |-> FALSE])
            /\ UNCHANGED sessions
    /\ UNCHANGED << redis_client, redis_data, next_sid, sm_lock, sweep_left,
                    sweep_now, sm_now >>
    /\ UNCHANGED nonSessionVars

\* update_session resumes after get_session's `await self._load_from_redis`
UpdateLoaded(t) ==
    /\ sm_pc[t] = "upd_load"
    /\ LET a == sm_arg[t] IN
       \E ok \in BOOLEAN :
          IF ok /\ RedisHas(a.sid)
          THEN UpdateApply(t, a.sid, a.active)
          ELSE /\ UNCHANGED sessions
               /\ SmReturn(t, [op |-> "update", ok |-> FALSE, hit |-> FALSE])
    /\ UNCHANGED << redis_client, redis_data, next_sid, sm_lock, sweep_left,
                    sweep_now, sm_now >>
    /\ UNCHANGED nonSessionVars

\* update_session resumes after `await self._store_in_redis(session)`
UpdateStored(t) ==
    /\ sm_pc[t] = "upd_store"
    /\ LET a == sm_arg[t] IN
       /\ \E ok \in BOOLEAN :
             redis_data' = RedisStore(ok, a.sid, [is_active |-> a.active])
       /\ SmReturn(t, [op |-> "update", ok |-> TRUE, hit |-> TRUE])
    /\ UNCHANGED << sessions, redis_client, next_sid, sm_lock, sweep_left,
                    sweep_now, sm_now >>
    /\ UNCHANGED nonSessionVars

\* add_to_history(s, url) once get_session has given the session (the
\* same for update_cookies, update_storage and update_device_info): the
\* session is changed, update_activity is called, and the store is written
\* without the lock.  `cur` is the session get_session returned.
AddApply(t, s, cur) ==
    /\ sessions' = (s :> update_activity(cur, sm_now)) @@ sessions
    /\ IF redis_client
       THEN SmSuspend(t, "add_store",
                      [sid |-> s, at |-> 0, active |-> cur.is_active])
       ELSE SmReturn(t, [op |-> "add", ok |-> TRUE, hit |-> TRUE])

\* a task calls add_to_history(s, url)
AddToHistory(t, s) ==
    /\ sm_pc[t] = "idle"
    /\ IF s \in DOMAIN sessions
       THEN AddApply(t, s, sessions[s])
       ELSE IF redis_client
       THEN /\ SmSuspend(t, "add_load", [sid |-> s, at |-> 0])
            /\ UNCHANGED sessions
       ELSE /\ SmReturn(t, [op |-> "add", ok |-> FALSE, hit |-> FALSE])
            /\ UNCHANGED sessions
    /\ UNCHANGED << redis_client, redis_data, next_sid, sm_lock, sweep_left,
                    sweep_now, sm_now >>
    /\ UNCHANGED nonSessionVars

\* add_to_history resumes after get_session's `await self._load_from_redis`
AddLoaded(t) ==
    /\ sm_pc[t] = "add_load"
    /\ LET s == sm_arg[t].sid IN
       \E ok \in BOOLEAN :
          IF ok /\ RedisHas(s)
          THEN AddApply(t, s, [last_activity |-> sm_now,
                               is_active |-> redis_data[s].is_active])
          ELSE /\ UNCHANGED sessions
               /\ SmReturn(t, [op |-> "add", ok |-> FALSE, hit |-> FALSE])
    /\ UNCHANGED << redis_client, redis_data, next_sid, sm_lock, sweep_left,
                    sweep_now, sm_now >>
    /\ UNCHANGED nonSessionVars

\* add_to_history resumes after `await self._store_in_redis(session)`
AddStored(t) ==
    /\ sm_pc[t] = "add_store"
    /\ LET a == sm_arg[t] IN
       /\ \E ok \in BOOLEAN :
             redis_data' = RedisStore(ok, a.sid, [is_active |-> a.active])
       /\ SmReturn(t, [op |-> "add", ok |-> TRUE, hit |-> TRUE])
    /\ UNCHANGED << sessions, redis_client, next_sid, sm_lock, sweep_left,
                    sweep_now, sm_now >>
    /\ UNCHANGED nonSessionVars

\* cleanup_expired_sessions: the sessions its first loop collects
Expired(now) ==
    { s \in DOMAIN sessions :
         \/ ~sessions[s].is_active
         \/ now - sessions[s].last_activity > SessionTimeout }

\* cleanup_expired_sessions with the lock held: without a store the second
\* loop does not suspend, with one it suspends in every delete
CleanupBody(now) ==
    IF Expired(now) = {} \/ ~redis_client
    THEN /\ sessions' = [s \in DOMAIN sessions \ Expired(now) |-> sessions[s]]
         /\ sm_lock' = NoTask
         /\ sm_pc' = [sm_pc EXCEPT ![Sweeper] = "idle"]
         /\ sweep_left' = << >>
         /\ sweep_now' = 0
    ELSE /\ UNCHANGED sessions
         /\ sm_lock' = Sweeper
         /\ sm_pc' = [sm_pc EXCEPT ![Sweeper] = "sweep_del"]
         /\ sweep_left' = SetToSeq(Expired(now))
         /\ sweep_now' = 0

\* _cleanup_loop calls cleanup_expired_sessions; `now` is taken before the
\* lock is asked for
CleanupExpired ==
    /\ sm_pc[Sweeper] = "idle"
    /\ IF sm_lock = NoTask
       THEN CleanupBody(sm_now)
       ELSE /\ sm_pc' = [sm_pc EXCEPT ![Sweeper] = "sweep_lock"]
            /\ sweep_now' = sm_now
            /\ UNCHANGED << sessions, sm_lock, sweep_left >>
    /\ UNCHANGED << redis_client, redis_data, next_sid, sm_arg, sm_now,
                    sm_ret >>
    /\ UNCHANGED nonSessionVars

CleanupResume ==
    /\ sm_pc[Sweeper] = "sweep_lock"
    /\ sm_lock = NoTask
    /\ CleanupBody(sweep_now)
    /\ UNCHANGED << redis_client, redis_data, next_sid, sm_arg, sm_now,
                    sm_ret >>
    /\ UNCHANGED nonSessionVars

\* cleanup_expired_sessions resumes after one delete of its second loop
CleanupDeleted ==
    /\ sm_pc[Sweeper] = "sweep_del"
    /\ LET s == Head(sweep_left) IN
       /\ \E ok \in BOOLEAN : redis_data' = RedisDelete(ok, s)
       /\ sessions' = Removed(sessions, s)
    /\ sweep_left' = Tail(sweep_left)
    /\ IF Tail(sweep_left) = << >>
       THEN /\ sm_lock' = NoTask
            /\ sm_pc' = [sm_pc EXCEPT ![Sweeper] = "idle"]
       ELSE UNCHANGED << sm_lock, sm_pc >>
    /\ UNCHANGED << redis_client, next_sid, sm_arg, sweep_now, sm_now,
                    sm_ret >>
    /\ UNCHANGED nonSessionVars

\* time passes
SmTick ==
    /\ \E t \in SmTimes : t > sm_now /\ sm_now' = t
    /\ UNCHANGED << sessions, redis_client, redis_data, next_sid, sm_lock,
                    sm_pc, sm_arg, sweep_left, sweep_now, sm_ret >>
    /\ UNCHANGED nonSessionVars

NextSessions ==
    \/ \E t \in SmTasks, s \in Sids : GetSession(t, s)
    \/ \E t \in SmTasks : GetLoaded(t)
    \/ \E t \in SmTasks, s \in Sids : EndSession(t, s)
    \/ \E t \in SmTasks : EndResume(t)
    \/ \E t \in SmTasks : EndDeleted(t)
    \/ \E t \in SmTasks : CreateSession(t)
    \/ \E t \in SmTasks : CreateResume(t)
    \/ \E t \in SmTasks : CreateStored(t)
    \/ CleanupExpired
    \/ CleanupResume
    \/ CleanupDeleted
    \/ SmTick

(***************************************************************************)
(* -------------  WebSocketManager and websocket_proxy  ------------------ *)
(***************************************************************************)
\* the duplex connections, named by the session id their handler draws
HubSids == {1, 2}
\* data.get("type") of a command: the two that fetch, one that raises
\* (browser_instance is None) and one that is answered at once
Cmds == {"navigate", "http_request", "touch_event", "ping"}
\* the instants the hub's clock takes: a connection's last_ping is either
\* within ping_timeout of them or not
HubTimes == { 0, PingTimeout + 1 }
\* plain HTTP requests to the fetch routes: one more than a burst admits
MaxHttp == BurstSize + 1

\* WebSocketConnection.__init__
WebSocketConnection(now) == [is_active |-> TRUE, last_ping |-> now]

\* the operation a command or a request is, for the histories
WsOp(s, k) == [via |-> "ws", sid |-> s, n |-> k]
HttpOp(n) == [via |-> "http", sid |-> 0, n |-> n]

sessionRest == << redis_client, redis_data, next_sid, sm_lock, sm_pc, sm_arg,
                  sweep_left, sweep_now, sm_now, sm_ret >>

InitHub ==
    /\ connections = << >>
    /\ ws_open = [s \in HubSids |-> "new"]
    /\ ws_pc = [s \in HubSids |-> "new"]
    /\ inbox = [s \in HubSids |-> << >>]
    /\ started = [s \in HubSids |-> 0]
    /\ inflight = [s \in HubSids |-> {}]
    /\ finished = [s \in HubSids |-> << >>]
    /\ pushed = [s \in HubSids |-> {}]
    /\ hb_pc = "sleep"
    /\ hb_left = << >>
    /\ hub_now = 0
    /\ http_n = 0
    /\ admissions = {}
    /\ fetched = {}
    /\ recv_at = [s \in HubSids |-> 0]

\* the hub as the other components' specifications leave it
HubAtRest == InitHub

\* websocket_proxy up to the message loop: accept, ws_manager.connect,
\* session_manager.create_session (no Redis: it does not suspend) and the
\* init message
Connect(s) ==
    /\ ws_pc[s] = "new"
    /\ ws_open' = [ws_open EXCEPT ![s] = "open"]
    /\ connections' = (s :> WebSocketConnection(hub_now)) @@ connections
    /\ sessions' = (s :> NewSession(hub_now)) @@ sessions
    /\ ws_pc' = [ws_pc EXCEPT ![s] = "recv"]
    /\ UNCHANGED << inbox, started, inflight, finished, pushed, hb_pc,
                    hb_left, hub_now, recv_at, http_n, admissions, fetched >>
    /\ UNCHANGED << poolVars, binderVars, rateVars, sessionRest, fetchVars,
                    rewriteVars >>

\* the commands sent so far on the connections from s on
RECURSIVE SentFrom(_)
SentFrom(s) ==
    IF s \notin HubSids
    THEN 0
    ELSE started[s] + Len(inbox[s]) + SentFrom(s + 1)

\* the client sends a command
ClientSend(s, c) ==
    /\ ws_open[s] = "open"
    /\ SentFrom(1) < MaxCmds
    /\ inbox' = [inbox EXCEPT ![s] = Append(@, c)]
    /\ UNCHANGED << connections, ws_open, ws_pc, started, inflight,
                    finished, pushed, hb_pc, hb_left, hub_now, recv_at, http_n,
                    admissions, fetched >>
    /\ UNCHANGED << poolVars, binderVars, rateVars, sessionVars, fetchVars,
                    rewriteVars >>

\* the client goes away
ClientClose(s) ==
    /\ ws_open[s] = "open"
    /\ ws_open' = [ws_open EXCEPT ![s] = "closed"]
    /\ UNCHANGED << connections, ws_pc, inbox, started, inflight,
                    finished, pushed, hb_pc, hb_left, hub_now, recv_at, http_n,
                    admissions, fetched >>
    /\ UNCHANGED << poolVars, binderVars, rateVars, sessionVars, fetchVars,
                    rewriteVars >>

\* the rest of the finally block, after ws_manager.disconnect:
\* session_manager.end_session(s) and direct_proxy.cleanup(s)
EndAndCleanup(s) ==
    /\ sessions' = Removed(sessions, s)
    /\ DirectCleanupBody(s)
    /\ UNCHANGED << poolVars, rateVars, sessionRest, fetchVars, rewriteVars >>

\* the finally block of websocket_proxy from its start.  disconnect(s)
\* suspends in websocket.close() when the socket is open; on a socket that
\* is closed already close() raises at once and the except passes.
Finally(s) ==
    /\ inflight' = [inflight EXCEPT ![s] = {}]
    /\ IF s \in DOMAIN connections /\ ws_open[s] = "open"
       THEN /\ connections' = [connections EXCEPT ![s].is_active = FALSE]
            /\ ws_open' = [ws_open EXCEPT ![s] = "closed"]
            /\ ws_pc' = [ws_pc EXCEPT ![s] = "fin_close"]
            /\ UNCHANGED << poolVars, binderVars, rateVars, sessionVars,
                            fetchVars, rewriteVars >>
       ELSE /\ connections' = DropKey(connections, s)
            /\ ws_pc' = [ws_pc EXCEPT ![s] = "done"]
            /\ EndAndCleanup(s)
            /\ UNCHANGED ws_open

\* mutant of CanReceive: the loop takes the next command while a fetch is
\* under way
CanReceiveWhileFetching(s) == ws_pc[s] \in {"recv", "fetching"}

\* the loop is at `data = await websocket.receive_json()`: it gets there
\* only when handle_websocket_message has returned
CanReceive(s) == ws_pc[s] = "recv"

\* receive_json returns a command and handle_websocket_message runs up to
\* its first suspension, or receive_json raises because the socket is closed
Receive(s) ==
    /\ CanReceive(s)
    /\ IF ws_open[s] = "closed"
       THEN /\ Finally(s)
            /\ UNCHANGED << inbox, started, finished, pushed, fetched,
                            recv_at >>
       ELSE /\ inbox[s] # << >>
            /\ LET c == Head(inbox[s])
                   k == started[s] + 1
               IN /\ inbox' = [inbox EXCEPT ![s] = Tail(@)]
                  /\ started' = [started EXCEPT ![s] = k]
                  /\ UNCHANGED << finished, pushed >>
                  /\ CASE c = "navigate" ->
                            /\ NavigateBody(s)
                            /\ fetched' = fetched \cup {WsOp(s, k)}
                            /\ ws_pc' = [ws_pc EXCEPT ![s] = "fetching"]
                            /\ inflight' = [inflight EXCEPT ![s] = @ \cup {k}]
                            /\ recv_at' = [recv_at EXCEPT ![s] = hub_now]
                            /\ UNCHANGED << connections, ws_open >>
                            /\ UNCHANGED << poolVars, rateVars, sessionVars,
                                            fetchVars, rewriteVars >>
                       [] c = "http_request" ->
                            /\ HttpRequestBody(s)
                            /\ fetched' = fetched \cup {WsOp(s, k)}
                            /\ ws_pc' = [ws_pc EXCEPT ![s] = "fetching"]
                            /\ inflight' = [inflight EXCEPT ![s] = @ \cup {k}]
                            /\ recv_at' = [recv_at EXCEPT ![s] = hub_now]
                            /\ UNCHANGED << connections, ws_open >>
                            /\ UNCHANGED << poolVars, rateVars, sessionVars,
                                            fetchVars, rewriteVars >>
                       [] c = "ping" ->
                            \* the pong is sent; ws_manager.handle_ping is
                            \* not called
                            /\ ws_pc' = [ws_pc EXCEPT ![s] = "pushing"]
                            /\ inflight' = [inflight EXCEPT ![s] = @ \cup {k}]
                            /\ recv_at' = [recv_at EXCEPT ![s] = hub_now]
                            /\ UNCHANGED << connections, ws_open, fetched >>
                            /\ UNCHANGED << poolVars, binderVars, rateVars,
                                            sessionVars, fetchVars, rewriteVars >>
                       [] c = "touch_event" ->
                            \* None.handle_touch: AttributeError, and the
                            \* except branch sends the error message
                            /\ ws_pc' = [ws_pc EXCEPT ![s] = "erroring"]
                            /\ inflight' = [inflight EXCEPT ![s] = @ \cup {k}]
                            /\ UNCHANGED << connections, ws_open, fetched,
                                            recv_at >>
                            /\ UNCHANGED << poolVars, binderVars, rateVars,
                                            sessionVars, fetchVars, rewriteVars >>
    /\ UNCHANGED << hb_pc, hb_left, hub_now, http_n, admissions >>

\* str(e) of an exception: empty or not
Msgs == {"", "refused"}
\* what raises on the way: httpx.TimeoutException or any other Exception
Exceptions == [kind : {"timeout", "connect", "other"}, msg : Msgs]

\* mutant of Caught: httpx.TimeoutException has no except clause
CaughtNotTimeout(fn, e) == e.kind # "timeout"

\* the except clauses of the three functions: `except Exception`, in
\* fetch_page after `except httpx.TimeoutException`
Caught(fn, e) == TRUE

\* fetch_page or make_request returns its result, the upstream's response
\* or what its except clause makes of an exception, and the handler goes
\* on to send it; an exception that left the function would take the
\* handler to `except Exception` of websocket_proxy
FetchDone(s) ==
    /\ ws_pc[s] = "fetching"
    /\ \E fn \in {"fetch_page", "make_request"}, e \in Exceptions :
          ws_pc' = [ws_pc EXCEPT ![s] = IF Caught(fn, e)
                                        THEN "pushing"
                                        ELSE "erroring"]
    /\ UNCHANGED << connections, ws_open, inbox, started, inflight,
                    finished, pushed, hb_pc, hb_left, hub_now, recv_at, http_n,
                    admissions, fetched >>
    /\ UNCHANGED << poolVars, binderVars, rateVars, sessionVars, fetchVars,
                    rewriteVars >>

\* websocket.send_json of the result: it is pushed and the loop goes back
\* to receive_json, or the socket is closed, send_json raises, the send in
\* the except branch raises as well and the finally block runs
PushDone(s) ==
    /\ ws_pc[s] = "pushing"
    /\ IF ws_open[s] = "open"
       THEN /\ pushed' = [pushed EXCEPT ![s] = @ \cup inflight[s]]
            /\ finished' = [finished EXCEPT ![s] = Append(@, started[s])]
            /\ inflight' = [inflight EXCEPT ![s] = {}]
            /\ ws_pc' = [ws_pc EXCEPT ![s] = "recv"]
            /\ UNCHANGED << connections, ws_open >>
            /\ UNCHANGED << poolVars, binderVars, rateVars, sessionVars,
                            fetchVars, rewriteVars >>
       ELSE /\ Finally(s)
            /\ UNCHANGED << pushed, finished >>
    /\ UNCHANGED << inbox, started, hb_pc, hb_left, hub_now, recv_at, http_n,
                    admissions, fetched >>

\* the send of the error message in `except Exception` is over, sent or
\* raised: the finally block runs
ErrorSent(s) ==
    /\ ws_pc[s] = "erroring"
    /\ Finally(s)
    /\ UNCHANGED << inbox, started, finished, pushed, hb_pc, hb_left,
                    hub_now, recv_at, http_n, admissions, fetched >>

\* the handler's disconnect(s) resumes after websocket.close():
\* `del self.connections[s]` raises KeyError when the entry is gone, and
\* the exception leaves the finally block before end_session and cleanup
FinClosed(s) ==
    /\ ws_pc[s] = "fin_close"
    /\ IF s \in DOMAIN connections
       THEN /\ connections' = DropKey(connections, s)
            /\ ws_pc' = [ws_pc EXCEPT ![s] = "done"]
            /\ EndAndCleanup(s)
       ELSE /\ ws_pc' = [ws_pc EXCEPT ![s] = "crashed"]
            /\ UNCHANGED connections
            /\ UNCHANGED << poolVars, binderVars, rateVars, sessionVars,
                            fetchVars, rewriteVars >>
    /\ UNCHANGED << ws_open, inbox, started, inflight, finished, pushed,
                    hb_pc, hb_left, hub_now, recv_at, http_n, admissions, fetched >>

\* heartbeat_sender's test of a connection
IsInactive(conns, s, now) ==
    \/ ~conns[s].is_active
    \/ now - conns[s].last_ping > PingTimeout

\* the sessions heartbeat_sender collects, in the dictionary's order
RECURSIVE InactiveFrom(_, _, _)
InactiveFrom(conns, now, s) ==
    IF s \notin HubSids
    THEN << >>
    ELSE IF s \in DOMAIN conns /\ IsInactive(conns, s, now)
         THEN << s >> \o InactiveFrom(conns, now, s + 1)
         ELSE InactiveFrom(conns, now, s + 1)

\* `for session_id in inactive_sessions: await self.disconnect(session_id)`
\* run up to its next suspension: a session that is gone is skipped, a
\* closed socket's entry is deleted at once, an open socket is closed and
\* the loop waits in websocket.close()
RECURSIVE DisconnectLoop(_, _, _)
DisconnectLoop(conns, open, left) ==
    IF left = << >>
    THEN [conns |-> conns, open |-> open, left |-> << >>, pc |-> "sleep"]
    ELSE LET s == Head(left)
         IN IF s \notin DOMAIN conns
            THEN DisconnectLoop(conns, open, Tail(left))
            ELSE IF open[s] = "open"
                 THEN [conns |-> [conns EXCEPT ![s].is_active = FALSE],
                       open |-> [open EXCEPT ![s] = "closed"],
                       left |-> left, pc |-> "closing"]
                 ELSE DisconnectLoop(DropKey(conns, s), open, Tail(left))

\* the heartbeat task sent to a connection that is not collected: on a
\* closed socket send_json fails and sets is_active to False
AfterHeartbeat(conns, open, now) ==
    [s \in DOMAIN conns |->
        IF ~IsInactive(conns, s, now) /\ open[s] = "closed"
        THEN [conns[s] EXCEPT !.is_active = FALSE]
        ELSE conns[s]]

\* one round of heartbeat_sender after its sleep
HeartbeatTick ==
    /\ hb_pc = "sleep"
    /\ LET r == DisconnectLoop(AfterHeartbeat(connections, ws_open, hub_now),
                               ws_open,
                               InactiveFrom(connections, hub_now, 1))
       IN /\ connections' = r.conns
          /\ ws_open' = r.open
          /\ hb_left' = r.left
          /\ hb_pc' = r.pc
    /\ UNCHANGED << ws_pc, inbox, started, inflight, finished, pushed,
                    hub_now, recv_at, http_n, admissions, fetched >>
    /\ UNCHANGED << poolVars, binderVars, rateVars, sessionVars, fetchVars,
                    rewriteVars >>

\* heartbeat_sender's disconnect(s) resumes after websocket.close(): the
\* entry is deleted and the loop goes on, or `del` raises KeyError, which
\* the round's `except Exception` logs, leaving the rest to the next round
HeartbeatClosed ==
    /\ hb_pc = "closing"
    /\ LET s == Head(hb_left)
           r == IF s \in DOMAIN connections
                THEN DisconnectLoop(DropKey(connections, s), ws_open,
                                    Tail(hb_left))
                ELSE [conns |-> connections, open |-> ws_open,
                      left |-> << >>, pc |-> "sleep"]
       IN /\ connections' = r.conns
          /\ ws_open' = r.open
          /\ hb_left' = r.left
          /\ hb_pc' = r.pc
    /\ UNCHANGED << ws_pc, inbox, started, inflight, finished, pushed,
                    hub_now, recv_at, http_n, admissions, fetched >>
    /\ UNCHANGED << poolVars, binderVars, rateVars, sessionVars, fetchVars,
                    rewriteVars >>

\* an interval between two pings of a client that is shorter than
\* ping_timeout, and the instants of a clock that advances by it
PingEvery == PingTimeout - 1
PingTimes == { 0, PingEvery, 2 * PingEvery }

\* time passes at the hub, one ping interval at a time
PingClockTick ==
    /\ hub_now + PingEvery \in PingTimes
    /\ hub_now' = hub_now + PingEvery
    /\ UNCHANGED << connections, ws_open, ws_pc, inbox, started,
                    inflight, finished, pushed, hb_pc, hb_left, http_n,
                    admissions, fetched, recv_at >>
    /\ UNCHANGED << poolVars, binderVars, rateVars, sessionVars, fetchVars,
                    rewriteVars >>

\* time passes at the hub
HubTick ==
    /\ \E t \in HubTimes : t > hub_now /\ hub_now' = t
    /\ UNCHANGED << connections, ws_open, ws_pc, inbox, started,
                    inflight, finished, pushed, hb_pc, hb_left, http_n,
                    admissions, fetched, recv_at >>
    /\ UNCHANGED << poolVars, binderVars, rateVars, sessionVars, fetchVars,
                    rewriteVars >>

\* a plain HTTP request of client c to a fetch route, for session s: the
\* middleware's dispatch, and call_next, which reaches the route and its
\* fetch_page only when dispatch admits the request
HttpFetch(c, s) ==
    /\ http_n < MaxHttp
    /\ http_n' = http_n + 1
    /\ DispatchBody(c)
    /\ IF resp'.status = 200
       THEN /\ admissions' = admissions \cup {HttpOp(http_n + 1)}
            /\ fetched' = fetched \cup {HttpOp(http_n + 1)}
            /\ NavigateBody(s)
       ELSE UNCHANGED << admissions, fetched, binderVars >>
    /\ UNCHANGED << connections, ws_open, ws_pc, inbox, started, inflight,
                    finished, pushed, hb_pc, hb_left, hub_now, recv_at >>
    /\ UNCHANGED << poolVars, sessionVars, fetchVars, rewriteVars >>

NextHub ==
    \/ \E s \in HubSids : Connect(s)
    \/ \E s \in HubSids, c \in Cmds : ClientSend(s, c)
    \/ \E s \in HubSids : ClientClose(s)
    \/ \E s \in HubSids : Receive(s)
    \/ \E s \in HubSids : FetchDone(s)
    \/ \E s \in HubSids : PushDone(s)
    \/ \E s \in HubSids : ErrorSent(s)
    \/ \E s \in HubSids : FinClosed(s)
    \/ HeartbeatTick
    \/ HeartbeatClosed
    \/ HubTick

\* the connections of clients that only ping, and the heartbeat sweep
NextHeartbeat ==
    \/ \E s \in HubSids : Connect(s)
    \/ \E s \in HubSids : ClientSend(s, "ping")
    \/ \E s \in HubSids : Receive(s)
    \/ \E s \in HubSids : PushDone(s)
    \/ HeartbeatTick
    \/ HeartbeatClosed
    \/ PingClockTick

\* the connections of clients that send http_request commands, and
\* touch_event commands, which raise in the handler
NextHttpCommands ==
    \/ \E s \in HubSids : Connect(s)
    \/ \E s \in HubSids, c \in {"http_request", "touch_event"} :
          ClientSend(s, c)
    \/ \E s \in HubSids : Receive(s)
    \/ \E s \in HubSids : FetchDone(s)
    \/ \E s \in HubSids : PushDone(s)
    \/ \E s \in HubSids : ErrorSent(s)
    \/ \E s \in HubSids : FinClosed(s)
    \/ HeartbeatTick
    \/ HeartbeatClosed
    \/ HubTick

\* the handlers with the HTTP fetch routes beside them
NextGateway ==
    \/ \E s \in HubSids : Connect(s)
    \/ \E s \in HubSids, c \in Cmds : ClientSend(s, c)
    \/ \E s \in HubSids : ClientClose(s)
    \/ \E s \in HubSids : Receive(s)
    \/ \E s \in HubSids : FetchDone(s)
    \/ \E s \in HubSids : PushDone(s)
    \/ \E s \in HubSids : ErrorSent(s)
    \/ \E s \in HubSids : FinClosed(s)
    \/ \E c \in Clients, s \in HubSids : HttpFetch(c, s)

(***************************************************************************)
(***************************************************************************)
(* ------------  fetch_page, make_request and proxy_page  ---------------- *)
(***************************************************************************)
\* the three functions that fetch for a caller
FetchFns == {"fetch_page", "make_request", "proxy_page"}
\* Content-Encoding values a response declares; ok tells whether its body
\* decodes from that encoding, html whether Content-Type has text/html
Encodings == {"identity", "gzip", "br"}
\* response.status_code: one that tells success and one that does not
Statuses == {200, 404}
Responses ==
    { r \in [enc : Encodings, ok : BOOLEAN, html : BOOLEAN,
             status : Statuses] :
        r.enc = "identity" => r.ok }
NoResponse == [enc |-> "none", ok |-> TRUE, html |-> FALSE, status |-> 0]
\* headers["Accept-Encoding"] of get_spoofed_headers and of the retry
SpoofedAcceptEncoding == {"gzip", "deflate"}
RetryAcceptEncoding == {"gzip", "deflate"}
\* calls made in a run
MaxFetches == 2

\* a text as the literal parts and the interpolated values it is made of;
\* an empty value adds nothing to it
StrOf(msg) == IF msg = "" THEN << >> ELSE << msg >>

\* DirectProxyService._error_page(title, message)
ErrorPage(title, message) == << title >> \o message

\* what the function returns from the except clause that catches e
FailureResult(fn, e) ==
    CASE fn = "fetch_page" /\ e.kind = "timeout" ->
            [raised |-> FALSE, failed |-> TRUE, status |-> 0,
             error |-> << "Request timed out" >>,
             content |-> ErrorPage("Request Timeout",
                                   << "The request timed out." >>)]
      [] fn = "fetch_page" /\ e.kind # "timeout" ->
            [raised |-> FALSE, failed |-> TRUE, status |-> 0,
             error |-> StrOf(e.msg),
             content |-> ErrorPage("Error",
                                   << "Failed to fetch" >> \o StrOf(e.msg))]
      [] fn = "make_request" ->
            [raised |-> FALSE, failed |-> TRUE, status |-> 500,
             error |-> << >>,
             content |-> << "Proxy error:" >> \o StrOf(e.msg)]
      [] fn = "proxy_page" ->
            [raised |-> FALSE, failed |-> TRUE, status |-> 200,
             error |-> << >>,
             content |-> << "Connection Error", "Error:" >> \o StrOf(e.msg)]

\* the exception leaves the function
Raised(e) ==
    [raised |-> TRUE, failed |-> TRUE, status |-> 0, error |-> << >>,
     content |-> << >>]

SuccessResult ==
    [raised |-> FALSE, failed |-> FALSE, status |-> 200, error |-> << >>,
     content |-> << "body" >>]

\* fetch_page and make_request hand the upstream status on
SuccessOf(r) == [SuccessResult EXCEPT !.status = r.status]

\* the callers of a fetch function: the direct-proxy routes navigate and
\* resource and the navigate command call fetch_page, the http_request
\* command calls make_request, proxy_page is a route itself
CallersOf(fn) ==
    CASE fn = "fetch_page" -> {"navigate", "resource", "command"}
      [] fn = "make_request" -> {"command"}
      [] fn = "proxy_page" -> {"page"}

\* navigate_proxy's answer to a result of fetch_page
NavigateStatus(result) == IF ~result.failed THEN result.status ELSE 500

\* fetch_resource's answer: its Response for a success names no status
ResourceStatus(result) == IF ~result.failed THEN 200 ELSE 500

\* proxy_page's page when the text it got is garbled
GarbledResult ==
    [raised |-> FALSE, failed |-> TRUE, status |-> 200, error |-> << >>,
     content |-> << "Content Encoding Error" >>]

NoResult ==
    [raised |-> FALSE, failed |-> FALSE, status |-> 0, error |-> << >>,
     content |-> << >>]

InitFetch ==
    /\ f_pc = "idle"
    /\ f_fn = "none"
    /\ f_first = NoResponse
    /\ f_resp = NoResponse
    /\ f_contacts = 0
    /\ f_where = "none"
    /\ f_result = NoResult
    /\ f_calls = 0
    /\ f_route = "none"
    /\ f_status = 0

\* the fetch functions as the other components' specifications leave them
FetchAtRest == InitFetch

\* an exception e raised at `where` ends the call
Throw(where, e) ==
    /\ f_pc' = "returned"
    /\ f_where' = where
    /\ f_result' = IF Caught(f_fn, e)
                   THEN FailureResult(f_fn, e)
                   ELSE Raised(e)

Return(r) ==
    /\ f_pc' = "returned"
    /\ f_result' = r
    /\ UNCHANGED f_where

\* a caller calls one of the functions: it enters its try block and asks
\* for the client
FetchCall(fn, caller) ==
    /\ f_pc \in {"idle", "returned", "answered"}
    /\ caller \in CallersOf(fn)
    /\ f_route' = caller
    /\ f_status' = 0
    /\ f_calls < MaxFetches
    /\ f_calls' = f_calls + 1
    /\ f_fn' = fn
    /\ f_pc' = "client"
    /\ f_first' = NoResponse
    /\ f_resp' = NoResponse
    /\ f_contacts' = 0
    /\ f_where' = "none"
    /\ f_result' = NoResult
    /\ UNCHANGED nonFetchVars

\* get_client (the AsyncClient of proxy_page) gives the client and the
\* request is sent
ClientReady ==
    /\ f_pc = "client"
    /\ f_pc' = "request"
    /\ UNCHANGED << f_fn, f_first, f_resp, f_contacts, f_where, f_result,
                    f_calls, f_route, f_status >>
    /\ UNCHANGED nonFetchVars

\* creating the client raises
ClientFails(e) ==
    /\ f_pc = "client"
    /\ e.kind = "other"
    /\ Throw("client", e)
    /\ UNCHANGED << f_fn, f_first, f_resp, f_contacts, f_calls,
                    f_route, f_status >>
    /\ UNCHANGED nonFetchVars

\* the request, first or retried, raises: a timeout, a refused connection,
\* anything else
RequestFails(e) ==
    /\ f_pc \in {"request", "retry"}
    /\ f_contacts' = f_contacts + 1
    /\ Throw("request", e)
    /\ UNCHANGED << f_fn, f_first, f_resp, f_calls,
                    f_route, f_status >>
    /\ UNCHANGED nonFetchVars

\* proxy_page after a response it keeps: the garbled-text test on HTML
PageResult(r) ==
    IF r.html /\ ~r.ok /\ r.enc # "identity"
    THEN GarbledResult
    ELSE SuccessResult

\* the first response arrives.  fetch_page goes on to rewrite HTML and
\* returns anything else as it is, make_request returns, proxy_page tries
\* brotli.decompress when the response declares br and retries when that
\* raises.
Respond(r) ==
    /\ f_pc = "request"
    /\ f_contacts' = f_contacts + 1
    /\ f_first' = r
    /\ f_resp' = r
    /\ CASE f_fn = "fetch_page" /\ r.html ->
                /\ f_pc' = "rewrite"
                /\ UNCHANGED << f_where, f_result >>
         [] f_fn = "fetch_page" /\ ~r.html -> Return(SuccessOf(r))
         [] f_fn = "make_request" -> Return(SuccessOf(r))
         [] f_fn = "proxy_page" ->
                IF r.enc = "br" /\ ~r.ok
                THEN /\ f_pc' = "retry"
                     /\ UNCHANGED << f_where, f_result >>
                ELSE Return(PageResult([r EXCEPT !.ok = TRUE]))
    /\ UNCHANGED << f_fn, f_calls,
                    f_route, f_status >>
    /\ UNCHANGED nonFetchVars

\* proxy_page: the response to the retry arrives and is kept as it is
RetryRespond(r) ==
    /\ f_pc = "retry"
    /\ f_contacts' = f_contacts + 1
    /\ f_resp' = r
    /\ Return(PageResult(r))
    /\ UNCHANGED << f_fn, f_first, f_calls,
                    f_route, f_status >>
    /\ UNCHANGED nonFetchVars

\* fetch_page: the replacements and _rewrite_urls are done
RewriteDone ==
    /\ f_pc = "rewrite"
    /\ Return(SuccessOf(f_resp))
    /\ UNCHANGED << f_fn, f_first, f_resp, f_contacts, f_calls,
                    f_route, f_status >>
    /\ UNCHANGED nonFetchVars

\* fetch_page: response.text, a replacement or _rewrite_urls raises
RewriteFails(e) ==
    /\ f_pc = "rewrite"
    /\ e.kind = "other"
    /\ Throw("rewrite", e)
    /\ UNCHANGED << f_fn, f_first, f_resp, f_contacts, f_calls,
                    f_route, f_status >>
    /\ UNCHANGED nonFetchVars

\* navigate_proxy or fetch_resource answers with what fetch_page returned
RouteAnswers ==
    /\ f_pc = "returned"
    /\ f_route \in {"navigate", "resource"}
    /\ ~f_result.raised
    /\ f_pc' = "answered"
    /\ f_status' = IF f_route = "navigate"
                   THEN NavigateStatus(f_result)
                   ELSE ResourceStatus(f_result)
    /\ UNCHANGED << f_fn, f_first, f_resp, f_contacts, f_where, f_result,
                    f_calls, f_route >>
    /\ UNCHANGED nonFetchVars

NextFetch ==
    \/ \E fn \in FetchFns, caller \in {"navigate", "resource", "command",
                                        "page"} : FetchCall(fn, caller)
    \/ RouteAnswers
    \/ ClientReady
    \/ \E e \in Exceptions : ClientFails(e)
    \/ \E e \in Exceptions : RequestFails(e)
    \/ \E r \in Responses : Respond(r)
    \/ \E r \in Responses : RetryRespond(r)
    \/ RewriteDone
    \/ \E e \in Exceptions : RewriteFails(e)

(***************************************************************************)
(* ------  ContentRewriter and DirectProxyService._rewrite_urls  --------- *)
(***************************************************************************)
\* the two rewriters
Rewriters == {"content", "direct"}
\* the characters after the host that tell the references apart: a, / and
\* ~, as their codes
TailBytes == {97, 47, 126}
\* "https://a.test/", the host of an absolute reference, and
\* "https://b.test/", the page's own address (base_url), as their codes
AbsPrefix == << 104, 116, 116, 112, 115, 58, 47, 47, 97, 46, 116, 101, 115,
                116, 47 >>
BasePrefix == << 104, 116, 116, 112, 115, 58, 47, 47, 98, 46, 116, 101, 115,
                 116, 47 >>
\* "mailto:" and "tel:"
MailtoPrefix == << 109, 97, 105, 108, 116, 111, 58 >>
TelPrefix == << 116, 101, 108, 58 >>
\* "#"
Hash == << 35 >>

\* the tails of at most n characters
RECURSIVE TailsUpTo(_)
TailsUpTo(n) ==
    IF n = 0
    THEN { << >> }
    ELSE TailsUpTo(n - 1) \cup
         { Append(t, b) : t \in { x \in TailsUpTo(n - 1) : Len(x) = n - 1 },
                          b \in TailBytes }

\* the references of a page: absolute http(s) URLs, protocol-relative and
\* relative ones, fragment-only ones, and the four schemes that are no
\* locations
RefKinds == {"http", "scheme_rel", "rel", "frag", "data", "mailto", "tel",
             "javascript"}
Refs ==
    { [kind |-> "http", tail |-> t] : t \in TailsUpTo(MaxTail) \ { << >> } }
    \cup { [kind |-> k, tail |-> << 97 >>] : k \in RefKinds \ {"http"} }

\* url.startswith('data:') and the like
StartsWith(ref, k) ==
    CASE k = "#" -> ref.kind = "frag"
      [] OTHER -> ref.kind = k

\* urljoin(base_url, url): the scheme of the result and its text
UrlJoin(ref) ==
    CASE ref.kind = "http" ->
            [http |-> TRUE, text |-> AbsPrefix \o ref.tail]
      [] ref.kind = "scheme_rel" ->
            [http |-> TRUE, text |-> AbsPrefix \o ref.tail]
      [] ref.kind = "rel" ->
            [http |-> TRUE, text |-> BasePrefix \o ref.tail]
      [] ref.kind = "root_rel" ->
            [http |-> TRUE, text |-> BasePrefix \o ref.tail]
      [] ref.kind = "frag" ->
            [http |-> TRUE, text |-> BasePrefix \o Hash \o ref.tail]
      [] ref.kind = "mailto" ->
            [http |-> FALSE, text |-> MailtoPrefix \o ref.tail]
      [] ref.kind = "tel" ->
            [http |-> FALSE, text |-> TelPrefix \o ref.tail]
      [] OTHER ->
            [http |-> FALSE, text |-> ref.tail]

\* the base64 alphabet by position: 62 is "+", 63 is "/"; "=" and the
\* blank a query string makes of "+" follow it
B64Plus == 62
B64Pad == 64
Blank == 65

\* base64.b64encode
RECURSIVE B64Encode(_)
B64Encode(b) ==
    CASE Len(b) = 0 -> << >>
      [] Len(b) = 1 -> << b[1] \div 4, (b[1] % 4) * 16, B64Pad, B64Pad >>
      [] Len(b) = 2 -> << b[1] \div 4, (b[1] % 4) * 16 + b[2] \div 16,
                          (b[2] % 16) * 4, B64Pad >>
      [] OTHER -> << b[1] \div 4, (b[1] % 4) * 16 + b[2] \div 16,
                     (b[2] % 16) * 4 + b[3] \div 64, b[3] % 64 >>
                  \o B64Encode(SubSeq(b, 4, Len(b)))

\* the value of the query parameter `url` as the route receives it: the
\* query string is form-decoded, "+" stands for a blank
QueryValue(t) == [i \in 1..Len(t) |-> IF t[i] = B64Plus THEN Blank ELSE t[i]]

\* the groups of four characters of a padded base64 text, as bytes
RECURSIVE B64Groups(_)
B64Groups(d) ==
    IF Len(d) = 0
    THEN << >>
    ELSE LET b1 == d[1] * 4 + d[2] \div 16
             b2 == (d[2] % 16) * 16 + d[3] \div 4
             b3 == (d[3] % 4) * 64 + d[4]
         IN (CASE d[3] = B64Pad -> << b1 >>
               [] d[3] # B64Pad /\ d[4] = B64Pad -> << b1, b2 >>
               [] OTHER -> << b1, b2, b3 >>)
            \o B64Groups(SubSeq(d, 5, Len(d)))

\* base64.b64decode(url): characters outside the alphabet are discarded,
\* and what is left must come in groups of four
B64Decode(t) ==
    LET d == SelectSeq(t, LAMBDA c : c # Blank)
    IN IF Len(d) % 4 # 0
       THEN [ok |-> FALSE, text |-> << >>]
       ELSE [ok |-> TRUE, text |-> B64Groups(d)]

\* quote(absolute_url, safe=''): letters, digits and _.-~ stay, every
\* other character becomes an escape, written here as its code plus 256
Unreserved(b) ==
    b \in (48..57) \cup (65..90) \cup (97..122) \cup {45, 46, 95, 126}

Quote(text) ==
    [i \in 1..Len(text) |->
        IF Unreserved(text[i]) THEN text[i] ELSE text[i] + 256]

\* the query parameter `url` of the direct-proxy routes, decoded
Unquote(t) ==
    [ok |-> TRUE,
     text |-> [i \in 1..Len(t) |-> IF t[i] >= 256 THEN t[i] - 256 ELSE t[i]]]

\* the elements and attributes of a page that hold a reference
Elems ==
    { << "a", "href" >>, << "link", "href" >>, << "area", "href" >>,
      << "script", "src" >>, << "img", "src" >>, << "iframe", "src" >>,
      << "audio", "src" >>, << "source", "src" >>, << "embed", "src" >>,
      << "input", "src" >>, << "video", "src" >>, << "video", "poster" >>,
      << "form", "action" >>, << "object", "data" >> }

\* url_attrs of ContentRewriter._rewrite_all_urls (srcset apart)
ContentCovers(e) ==
    e \in { << "a", "href" >>, << "link", "href" >>, << "script", "src" >>,
            << "img", "src" >>, << "iframe", "src" >>,
            << "form", "action" >>, << "video", "src" >>,
            << "video", "poster" >>, << "audio", "src" >>,
            << "source", "src" >>, << "embed", "src" >>,
            << "object", "data" >> }

\* the reference is left as it is
Same(ref) == [form |-> "same", ref |-> ref, payload |-> << >>]

\* ContentRewriter._create_proxy_url(url, base_url)
CreateProxyUrl(ref) ==
    IF \/ StartsWith(ref, "data")
       \/ StartsWith(ref, "javascript")
       \/ StartsWith(ref, "#")
    THEN Same(ref)
    ELSE [form |-> "proxy", ref |-> ref,
          payload |-> B64Encode(UrlJoin(ref).text)]

\* what ContentRewriter._rewrite_all_urls makes of the reference in e
ContentRewrite(e, ref) ==
    IF ContentCovers(e) THEN CreateProxyUrl(ref) ELSE Same(ref)

\* what DirectProxyService._rewrite_urls makes of the reference in e: the
\* anchors, then img, script and link, then the forms.  No reference of
\* the pages modelled names localhost:8000 or /api/direct-proxy/.
DirectRewrite(e, ref) ==
    CASE e = << "a", "href" >> ->
            IF \/ StartsWith(ref, "javascript")
               \/ StartsWith(ref, "mailto")
               \/ StartsWith(ref, "tel")
               \/ StartsWith(ref, "#")
               \/ ~UrlJoin(ref).http
            THEN Same(ref)
            ELSE [form |-> "navigate", ref |-> ref,
                  payload |-> Quote(UrlJoin(ref).text)]
      [] e \in { << "img", "src" >>, << "script", "src" >>,
                 << "link", "href" >> } ->
            IF UrlJoin(ref).http
            THEN [form |-> "resource", ref |-> ref,
                  payload |-> Quote(UrlJoin(ref).text)]
            ELSE Same(ref)
      [] e = << "form", "action" >> ->
            [form |-> "navigate", ref |-> ref,
             payload |-> Quote(UrlJoin(ref).text)]
      [] OTHER -> Same(ref)

Rewritten(by, e, ref) ==
    IF by = "content" THEN ContentRewrite(e, ref) ELSE DirectRewrite(e, ref)

NoGot == [ok |-> FALSE, text |-> << >>]

\* a page with one reference, as fetched or as a rewriter left it before
InitRewrite ==
    /\ rw_pc = "page"
    /\ rw_by \in Rewriters
    /\ rw_elem \in Elems
    /\ rw_ref \in Refs
    /\ rw_out = Same(rw_ref)
    /\ rw_wraps = 0
    /\ rw_blocks = 0
    /\ rw_passes = 0
    /\ rw_got = NoGot

\* the rewriters as the other components' specifications leave them
RewriteAtRest ==
    /\ rw_pc = "page"
    /\ rw_by = "content"
    /\ rw_elem = << "a", "href" >>
    /\ rw_ref = [kind |-> "rel", tail |-> << 97 >>]
    /\ rw_out = Same(rw_ref)
    /\ rw_wraps = 0
    /\ rw_blocks = 0
    /\ rw_passes = 0
    /\ rw_got = NoGot

\* one pass of rewrite_html (ContentRewriter) or _rewrite_urls
\* (DirectProxyService) over the document: the script block is inserted
\* at the head and the reference rewritten.  On a document that went
\* through a pass before, ContentRewriter wraps its own "/proxy?url=..."
\* once more, _rewrite_urls skips what holds /api/direct-proxy/.
RewritePass ==
    /\ rw_pc \in {"page", "rewritten"}
    /\ rw_passes < MaxPasses
    /\ rw_passes' = rw_passes + 1
    /\ rw_blocks' = rw_blocks + 1
    /\ rw_pc' = "rewritten"
    /\ IF rw_pc = "page"
       THEN /\ rw_out' = Rewritten(rw_by, rw_elem, rw_ref)
            /\ rw_wraps' = IF rw_out'.form = "same" THEN 0 ELSE 1
       ELSE /\ rw_out' = rw_out
            /\ rw_wraps' = IF rw_by = "content" /\ rw_out.form = "proxy"
                           THEN rw_wraps + 1
                           ELSE rw_wraps
    /\ UNCHANGED << rw_by, rw_elem, rw_ref, rw_got >>
    /\ UNCHANGED nonRewriteVars

\* the browser follows the rewritten reference and the route decodes its
\* `url` parameter: proxy_request for "/proxy?url=...", the direct-proxy
\* routes for their own
FollowReference ==
    /\ rw_pc = "rewritten"
    /\ rw_out.form # "same"
    /\ rw_wraps = 1
    /\ rw_pc' = "requested"
    /\ rw_got' = IF rw_out.form = "proxy"
                 THEN B64Decode(QueryValue(rw_out.payload))
                 ELSE Unquote(QueryValue(rw_out.payload))
    /\ UNCHANGED << rw_by, rw_elem, rw_ref, rw_out, rw_wraps, rw_blocks,
                    rw_passes >>
    /\ UNCHANGED nonRewriteVars

NextRewrite ==
    \/ RewritePass
    \/ FollowReference

\* the three forms of a reference in CSS: url(...), @import "..." and
\* @import url(...)
CssForms == { << "css", "url" >>, << "css", "import" >>,
              << "css", "import_url" >> }

\* "proxy?url=", what follows the "/" of a gateway URL
ProxyPath == << 112, 114, 111, 120, 121, 63, 117, 114, 108, 61 >>

\* the character of the base64 alphabet at a position, as its code
B64Char(p) ==
    CASE p <= 25 -> 65 + p
      [] p >= 26 /\ p <= 51 -> 97 + (p - 26)
      [] p >= 52 /\ p <= 61 -> 48 + (p - 52)
      [] p = B64Plus -> 43
      [] p = 63 -> 47
      [] OTHER -> 61

\* what _create_proxy_url returned, read as a reference of the stylesheet:
\* f"/proxy?url={encoded}" is a path from the root of the page's host
AsReference(out) ==
    IF out.form = "same"
    THEN out.ref
    ELSE [kind |-> "root_rel",
          tail |-> ProxyPath \o
                   [i \in 1..Len(out.payload) |-> B64Char(out.payload[i])]]

\* replace_url and replace_import of _rewrite_css_urls on the one
\* reference of the stylesheet: the reference is handed to
\* _create_proxy_url and written back in the form given
Replaced(c, form) ==
    LET out == CreateProxyUrl(c.target)
    IN [form |-> form, target |-> AsReference(out), out |-> out,
        wraps |-> IF out.form = "proxy" THEN c.wraps + 1 ELSE c.wraps]

\* re.sub(r'url\((.*?)\)', replace_url, css)
SubUrl(c) ==
    IF c.form \in {"url", "import_url"} THEN Replaced(c, c.form) ELSE c

\* re.sub(r'@import\s+["\']([^"\']+)["\']', replace_import, css)
SubImport(c) ==
    IF c.form = "import" THEN Replaced(c, "import") ELSE c

\* re.sub(r'@import\s+url\((.*?)\)', replace_import, css)
SubImportUrl(c) ==
    IF c.form = "import_url" THEN Replaced(c, "import") ELSE c

\* ContentRewriter._rewrite_css_urls(css, base_url) on a stylesheet with
\* one reference: the three substitutions one after the other
RewriteCssUrls(form, ref) ==
    SubImportUrl(SubImport(SubUrl(
        [form |-> form, target |-> ref, out |-> Same(ref), wraps |-> 0])))

\* a stylesheet (style attribute, style block or CSS document) with one
\* reference, as fetched
InitCss ==
    /\ rw_pc = "page"
    /\ rw_by = "content"
    /\ rw_elem \in CssForms
    /\ rw_ref \in Refs
    /\ rw_out = Same(rw_ref)
    /\ rw_wraps = 0
    /\ rw_blocks = 0
    /\ rw_passes = 0
    /\ rw_got = NoGot

\* _rewrite_css_urls is called on the stylesheet
RewriteCss ==
    /\ rw_pc = "page"
    /\ rw_elem \in CssForms
    /\ LET c == RewriteCssUrls(rw_elem[2], rw_ref)
       IN /\ rw_out' = c.out
          /\ rw_wraps' = c.wraps
    /\ rw_pc' = "rewritten"
    /\ rw_passes' = rw_passes + 1
    /\ UNCHANGED << rw_by, rw_elem, rw_ref, rw_blocks, rw_got >>
    /\ UNCHANGED nonRewriteVars

\* a stylesheet is rewritten and the browser follows its reference
NextCss ==
    \/ RewriteCss
    \/ FollowReference

(***************************************************************************)
(* Specifications                                                          *)
(***************************************************************************)
\* the pool before initialize(), as the other specifications leave it
PoolAtRest == InitPool

InitPoolSpec ==
    InitPool /\ BinderAtRest /\ RateAtRest /\ SessionsAtRest /\ HubAtRest
    /\ FetchAtRest /\ RewriteAtRest

InitBinderSpec ==
    PoolAtRest /\ InitBinder /\ RateAtRest /\ SessionsAtRest /\ HubAtRest
    /\ FetchAtRest /\ RewriteAtRest

InitRateSpec ==
    PoolAtRest /\ BinderAtRest /\ InitRate /\ SessionsAtRest /\ HubAtRest
    /\ FetchAtRest /\ RewriteAtRest

InitSessionsSpec ==
    PoolAtRest /\ BinderAtRest /\ RateAtRest /\ InitSessions /\ HubAtRest
    /\ FetchAtRest /\ RewriteAtRest

InitHubSpec ==
    PoolAtRest /\ BinderAtRest /\ RateAtRest /\ SessionsAtRest /\ InitHub
    /\ FetchAtRest /\ RewriteAtRest

SpecPool == InitPoolSpec /\ [][NextPool]_vars

SpecPoolClass == InitPoolSpec /\ [][NextPoolClass]_vars

SpecPoolCalls == InitPoolSpec /\ [][NextPoolCalls]_vars

SpecPoolSweep == InitPoolSpec /\ [][NextPoolSweep]_vars

SpecBinder == InitBinderSpec /\ [][NextBinder]_vars

SpecRate == InitRateSpec /\ [][NextRate]_vars

SpecSessions == InitSessionsSpec /\ [][NextSessions]_vars

\* the registry under capacity pressure: sessions are created and marked
\* active or inactive through update_session
NextSessionsCap ==
    \/ \E t \in SmTasks, s \in Sids, v \in BOOLEAN : UpdateSession(t, s, v)
    \/ \E t \in SmTasks : UpdateLoaded(t)
    \/ \E t \in SmTasks : UpdateStored(t)
    \/ \E t \in SmTasks : CreateSession(t)
    \/ \E t \in SmTasks : CreateResume(t)
    \/ \E t \in SmTasks : CreateStored(t)
    \/ SmTick

SpecSessionsCap == InitSessionsSpec /\ [][NextSessionsCap]_vars

\* the event loop runs every task that can go on
SessionsCapFairness ==
    \A t \in SmTasks :
       /\ WF_vars(UpdateLoaded(t))
       /\ WF_vars(UpdateStored(t))
       /\ WF_vars(CreateResume(t))
       /\ WF_vars(CreateStored(t))

SpecSessionsCapFair ==
    InitSessionsSpec /\ [][NextSessionsCap]_vars /\ SessionsCapFairness

\* the registry and its store under updates: sessions are created, read,
\* updated and ended
NextSessionsStore ==
    \/ \E t \in SmTasks, s \in Sids : AddToHistory(t, s)
    \/ \E t \in SmTasks : AddLoaded(t)
    \/ \E t \in SmTasks : AddStored(t)
    \/ \E t \in SmTasks, s \in Sids : GetSession(t, s)
    \/ \E t \in SmTasks : GetLoaded(t)
    \/ \E t \in SmTasks, s \in Sids : EndSession(t, s)
    \/ \E t \in SmTasks : EndResume(t)
    \/ \E t \in SmTasks : EndDeleted(t)
    \/ \E t \in SmTasks : CreateSession(t)
    \/ \E t \in SmTasks : CreateResume(t)
    \/ \E t \in SmTasks : CreateStored(t)

SpecSessionsStore == InitSessionsSpec /\ [][NextSessionsStore]_vars

SpecHub == InitHubSpec /\ [][NextHub]_vars

SpecGateway == InitHubSpec /\ [][NextGateway]_vars

SpecHeartbeat == InitHubSpec /\ [][NextHeartbeat]_vars

SpecHttpCommands == InitHubSpec /\ [][NextHttpCommands]_vars

InitFetchSpec ==
    PoolAtRest /\ BinderAtRest /\ RateAtRest /\ SessionsAtRest /\ HubAtRest
    /\ InitFetch /\ RewriteAtRest

InitRewriteSpec ==
    PoolAtRest /\ BinderAtRest /\ RateAtRest /\ SessionsAtRest /\ HubAtRest
    /\ FetchAtRest /\ InitRewrite

SpecFetch == InitFetchSpec /\ [][NextFetch]_vars

SpecRewrite == InitRewriteSpec /\ [][NextRewrite]_vars

InitCssSpec ==
    PoolAtRest /\ BinderAtRest /\ RateAtRest /\ SessionsAtRest /\ HubAtRest
    /\ FetchAtRest /\ InitCss

SpecCss == InitCssSpec /\ [][NextCss]_vars

\* what the event loop guarantees: a task that can run does run.  A task
\* suspended on the lock resumes once the lock is free, a creation ends
\* (with an instance or with an exception), the wait loop wakes up from
\* its sleep.  Whether callers call at all is up to them.
PoolFairness ==
    \A t \in Tasks :
        /\ WF_vars(AcquireResume(t))
        /\ WF_vars(AcquireCreated(t) \/ AcquireCreateFailed(t))
        /\ WF_vars(AcquirePoll(t))
        /\ WF_vars(ReleaseResume(t))

SpecPoolFair == InitPoolSpec /\ [][NextPool]_vars /\ PoolFairness

\* what the event loop guarantees at the hub: heartbeat_sender wakes up
\* from its sleep and from websocket.close(), and a handler that can go on
\* does: receive_json returns or raises, a fetch ends, a send ends.  What
\* the clients do and when is up to them.
HubFairness ==
    /\ WF_vars(HeartbeatTick)
    /\ WF_vars(HeartbeatClosed)
    /\ \A s \in HubSids :
          /\ WF_vars(Receive(s))
          /\ WF_vars(FetchDone(s))
          /\ WF_vars(PushDone(s))
          /\ WF_vars(ErrorSent(s))
          /\ WF_vars(FinClosed(s))

SpecHubFair == InitHubSpec /\ [][NextHub]_vars /\ HubFairness

(***************************************************************************)
(* Claims about the pool                                                   *)
(***************************************************************************)
Owners(i) == { s \in DOMAIN session_map : session_map[s] = i }

\* C1: in every reachable state each busy instance has exactly one owning
\* session, which the session map maps to it; each free instance has no
\* owner; no two sessions are mapped to the same instance.
C1_Ownership ==
    /\ \A i \in DOMAIN pool :
          /\ pool[i].is_busy =>
                /\ pool[i].session_id \in Sessions
                /\ Owners(i) = { pool[i].session_id }
          /\ ~pool[i].is_busy =>
                /\ pool[i].session_id = NoSession
                /\ Owners(i) = {}
    /\ \A s1, s2 \in DOMAIN session_map :
          s1 # s2 => session_map[s1] # session_map[s2]

\* acquire (free scan and creation), release and a cleanup that removed an
\* instance have all acted: busy and free instances side by side, and an
\* instance created after another one was destroyed
C1_Witness ==
    /\ next_id = MaxIds + 1
    /\ PoolSize = MaxPoolSize
    /\ Cardinality(DOMAIN session_map) >= 2
    /\ \E i, j \in DOMAIN pool : pool[i].is_busy /\ ~pool[j].is_busy

Creating == { t \in Tasks : pc[t] = "creating" }

\* C2: the pool never holds more than max_pool_size instances, counting
\* the creations in progress: two acquisitions that find the pool one
\* below the maximum never both create.
C2_MaxSize ==
    /\ PoolSize <= MaxPoolSize
    /\ PoolSize + Cardinality(Creating) <= MaxPoolSize

\* one acquisition creates the last instance the pool has room for while
\* a second acquisition has been called
C2_Witness ==
    \E t1, t2 \in Tasks :
        /\ pc[t1] = "creating"
        /\ PoolSize = MaxPoolSize - 1
        /\ pc[t2] = "acq_lock"
        /\ arg[t2].sid \notin DOMAIN session_map

\* C3 (as claimed): with the pool full and every instance busy, when an
\* acquire of a session that owns nothing waits and an owning session
\* calls release, the release completes and the acquire returns.
C3_ReleaseWakesWaiter ==
    \A tw, tr \in Tasks :
        ( /\ pc[tw] = "waiting"
          /\ arg[tw].sid \notin DOMAIN session_map
          /\ PoolSize = MaxPoolSize
          /\ FreeAny = {}
          /\ pc[tr] = "rel_lock"
          /\ arg[tr].sid \in DOMAIN session_map )
        ~> ( pc[tr] = "idle" /\ pc[tw] = "idle" )

\* C4 (as claimed): an acquire that entered the wait loop leaves it after a
\* bounded wait, also when no instance is ever released.
C4_WaitTerminates ==
    \A t \in Tasks : [](pc[t] = "waiting" => <>(pc[t] # "waiting"))

\* C5: a cleanup pass on a pool of at least 2 instances leaves at least 2,
\* and a pass on a pool of fewer than 2 removes nothing.
C5_CleanupFloor ==
    [][ CleanupIdle =>
          /\ PoolSize >= MinKeep => Cardinality(DOMAIN pool') >= MinKeep
          /\ PoolSize < MinKeep => pool' = pool ]_vars

\* a cleanup pass has destroyed an instance and stopped at the floor: the
\* instances it left are idle for longer than the timeout as well
C5_Witness ==
    /\ PoolSize = MinKeep
    /\ next_id - 1 > PoolSize
    /\ \A i \in DOMAIN pool :
          ~pool[i].is_busy /\ idle_time(pool[i], pool_now) > IdleTimeout

(***************************************************************************)
(* Claims about the sticky binder                                          *)
(***************************************************************************)
\* C6: on one ProxyConfig, every get_proxy_url(S) returns the identity of
\* S's first resolution: no session is ever given two identities, and in
\* sticky mode the identity is the token recorded for S.
C6_Sticky ==
    \A b \in Binders, s \in BSessions :
        /\ Cardinality(returned[b][s]) <= 1
        /\ (StickyMode /\ returned[b][s] # {}) =>
              /\ s \in DOMAIN sticky_map[b]
              /\ returned[b][s] = {[kind |-> "s", id |-> sticky_map[b][s]]}

\* a session has been resolved again on a sticky ProxyConfig on which
\* other sessions were bound as well
C6_Witness ==
    /\ StickyMode
    /\ \E s \in BSessions :
          /\ resolves["direct"][s] = "again"
          /\ sticky_index["direct"] >= 2
          /\ returned["direct"][s] # {}

\* C7 (as claimed): every request sent out for one session carries the
\* same upstream identity, whichever service sends it.
C7_OneIdentityPerSession ==
    \A o1, o2 \in outbound : o1.sid = o2.sid => o1.ident = o2.ident

\* C8: the k-th session bound on a ProxyConfig (counting from 0) has token
\* k mod N; two sessions share a token only if their ordinals differ by a
\* multiple of N; the index counts the sessions bound, not the calls.
C8_RoundRobin ==
    \A b \in Binders :
        LET order == bind_order[b] IN
        /\ sticky_index[b] = Len(order)
        /\ StickyMode =>
              sticky_index[b] =
                  Cardinality({ s \in BSessions : resolves[b][s] # "never" })
        /\ DOMAIN sticky_map[b] = SeqToSet(order)
        /\ \A j, k \in 1..Len(order) :
              /\ sticky_map[b][order[k]] = (k - 1) % NumTokens
              /\ j # k => order[j] # order[k]
              /\ sticky_map[b][order[j]] = sticky_map[b][order[k]]
                    => (j - k) % NumTokens = 0

\* more sessions than tokens have been bound on one ProxyConfig (the
\* tokens wrapped around) and one of them has been resolved again
C8_Witness ==
    /\ StickyMode
    /\ \E b \in Binders :
          /\ sticky_index[b] = NumTokens + 1
          /\ \E s \in BSessions : resolves[b][s] = "again"
          /\ \E s1, s2 \in DOMAIN sticky_map[b] :
                s1 # s2 /\ sticky_map[b][s1] = sticky_map[b][s2]

(***************************************************************************)
(* Claims about the rate limiter                                           *)
(***************************************************************************)
\* C9: a request of a client whose block has not yet run out is answered
\* 429 and changes neither the client's window nor its block-until time.
C9_BlockedRejected ==
    [][ \A c \in Clients :
          ( /\ c \in DOMAIN blocked_until
            /\ rl_now < blocked_until[c]
            /\ Dispatch(c) )
          => /\ resp'.client = c
             /\ resp'.status = 429
             /\ request_history' = request_history
             /\ blocked_until' = blocked_until
             /\ admitted' = admitted ]_vars

\* a request has been turned away because of a block set earlier
C9_Witness ==
    /\ resp.via = "blocked"
    /\ resp.status = 429
    /\ resp.client \in DOMAIN blocked_until
    /\ rl_now < blocked_until[resp.client]
    /\ rl_now > blocked_until[resp.client] - BlockSeconds

\* the admissions with a timestamp from lo to hi
CountIn(times, lo, hi) ==
    Cardinality({ i \in 1..Len(times) : lo <= times[i] /\ times[i] <= hi })

IsSuffix(h, a) ==
    /\ Len(h) <= Len(a)
    /\ h = SubSeq(a, Len(a) - Len(h) + 1, Len(a))

\* C10: of one client, no more than burst_size requests are admitted in
\* the 5 seconds up to any instant t (t - 5 < ts <= t), no more than
\* requests_per_minute in the 60 seconds up to t (t - 60 <= ts <= t), and
\* the window holds nothing but admitted requests.  Requests arrive at
\* TimePoints only, and a window ending at any other instant holds no more
\* than the one ending at the last admission inside it.
C10_Windows ==
    \A c \in Clients :
        /\ \A t \in TimePoints :
              /\ CountIn(admitted[c], t - BurstSeconds + 1, t) <= BurstSize
              /\ CountIn(admitted[c], t - WindowSeconds, t)
                    <= RequestsPerMinute
        /\ IsSuffix(HistoryOf(c), admitted[c])

\* a client has filled its burst window and its next request was rejected
C10_Witness ==
    \E c \in Clients :
        /\ resp.client = c
        /\ resp.via = "window"
        /\ CountIn(admitted[c], rl_now - BurstSeconds + 1, rl_now) = BurstSize
        /\ Len(admitted[c]) > BurstSize

\* every timestamp of the client's window is inside the burst window
AllInBurst(c) ==
    \A i \in 1..Len(HistoryOf(c)) : HistoryOf(c)[i] > rl_now - BurstSeconds

\* C11: with requests_per_minute >= burst_size, a client without a block
\* whose window holds only requests of the running burst window is admitted
\* while fewer than burst_size of them are there, and the request after
\* the burst_size-th is rejected with 429 and a Retry-After of 60.
C11_BurstThenReject ==
    [][ \A c \in Clients :
          ( /\ RequestsPerMinute >= BurstSize
            /\ c \notin DOMAIN blocked_until
            /\ AllInBurst(c)
            /\ Dispatch(c) )
          => IF Len(HistoryOf(c)) < BurstSize
             THEN /\ resp'.status = 200
                  /\ admitted'[c] = Append(admitted[c], rl_now)
             ELSE /\ Len(HistoryOf(c)) = BurstSize
                  /\ resp'.status = 429
                  /\ resp'.retry_after = 60
                  /\ admitted' = admitted ]_vars

\* starting from the empty window a client has had burst_size requests
\* admitted inside one burst window and the next one rejected
C11_Witness ==
    \E c \in Clients :
        /\ RequestsPerMinute >= BurstSize
        /\ Len(admitted[c]) = BurstSize
        /\ HistoryOf(c) = admitted[c]
        /\ AllInBurst(c)
        /\ resp = [client |-> c, status |-> 429, retry_after |-> 60,
                   remaining |-> 0, via |-> "window"]
        /\ c \in DOMAIN blocked_until
        /\ blocked_until[c] = rl_now + BlockSeconds

\* C12 (as claimed): in every reachable state no stored request window
\* holds a timestamp older than the 60-second window length.
C12_WindowFresh ==
    \A c \in DOMAIN request_history :
        \A i \in 1..Len(request_history[c]) :
            request_history[c][i] >= rl_now - WindowSeconds

(***************************************************************************)
(* Claims about the session registry                                       *)
(***************************************************************************)
\* C14 (as claimed): get_session(s) on a session whose last activity is
\* older than the idle timeout does not return the session and does not
\* revive it, sweep or no sweep.
C14_IdleAbsent ==
    [][ \A t \in SmTasks, s \in Sids :
          ( /\ s \in DOMAIN sessions
            /\ sm_now - sessions[s].last_activity > SessionTimeout
            /\ GetSession(t, s) )
          => /\ ~sm_ret'.ok
             /\ s \in DOMAIN sessions'
                   => sessions'[s].last_activity = sessions[s].last_activity
      ]_vars

\* a call of end_session(s) by task t returns with this step
EndReturns(t, s) ==
    /\ sm_pc'[t] = "idle"
    /\ \/ EndSession(t, s)
       \/ sm_arg[t].sid = s /\ (EndResume(t) \/ EndDeleted(t))

\* end_session(s) by task t starts to run under the lock with this step
EndRuns(t, s) ==
    \/ sm_lock = NoTask /\ EndSession(t, s)
    \/ sm_arg[t].sid = s /\ EndResume(t)

\* C15: end_session(s) on an id that is not in the registry (ended before,
\* or unknown) changes neither self.sessions nor the store and returns
\* without an error; and every end_session(s) that returns leaves s out of
\* the registry and reports success, so a second call repeats the state
\* the first one left.
C15_EndIdempotent ==
    [][ \A t \in SmTasks, s \in Sids :
          /\ (EndRuns(t, s) /\ s \notin DOMAIN sessions)
                => /\ sessions' = sessions
                   /\ redis_data' = redis_data
                   /\ sm_pc'[t] = "idle"
                   /\ sm_ret' = [op |-> "end", ok |-> TRUE, hit |-> FALSE]
          /\ EndReturns(t, s)
                => /\ s \notin DOMAIN sessions'
                   /\ sm_ret'.op = "end"
                   /\ sm_ret'.ok
      ]_vars

\* every session id has been created and ended again, and the last
\* end_session to return was one for an id already ended
C15_Witness ==
    /\ sm_ret = [op |-> "end", ok |-> TRUE, hit |-> FALSE]
    /\ \A s \in Sids : s < next_sid
    /\ sessions = << >>
    /\ \A t \in SmTasks \cup {Sweeper} : sm_pc[t] = "idle"
    /\ sm_now = 0

\* C13 (as claimed): every operation that reaches a fetch, a navigate or
\* http_request command of a connection as much as a plain HTTP request,
\* has been admitted by the rate limiter's dispatch before.
C13_AdmittedBeforeFetch == fetched \subseteq admissions

\* the handler has left the loop and its finally block
Exited(s) == ws_pc[s] \in {"done", "crashed"}

\* C16 (as claimed): once the handler of a connection has exited, by a
\* disconnect or by an exception while handling a command, the connection
\* is out of the hub, the session is out of the registry, and neither
\* DirectProxyService nor ProxyService holds a client for the session.
C16_ExitReleasesAll ==
    \A s \in HubSids :
        Exited(s) => /\ s \notin DOMAIN connections
                     /\ s \notin DOMAIN sessions
                     /\ s \notin DOMAIN direct_clients
                     /\ s \notin DOMAIN client_pool

\* the ordinals in a sequence
Ordinals(seq) == { seq[i] : i \in 1..Len(seq) }

\* C17: on one connection at most one command is being handled, and when
\* command k is being handled (its fetch included) every command before
\* it has finished, in receipt order, and has had its result pushed.
C17_ReceiptOrder ==
    \A s \in HubSids :
        /\ Cardinality(inflight[s]) <= 1
        /\ \A k \in inflight[s] :
              /\ k = started[s]
              /\ finished[s] = [i \in 1..(k - 1) |-> i]
              /\ pushed[s] = 1..(k - 1)

C17_Witness ==
    \E s \in HubSids :
        /\ inflight[s] = {2}
        /\ ws_pc[s] = "fetching"
        /\ finished[s] = << 1 >>
        /\ pushed[s] = {1}

\* heartbeat_sender's timeout test holds of the connection of s
TimedOut(s) ==
    /\ s \in DOMAIN connections
    /\ hub_now - connections[s].last_ping > PingTimeout

FetchReturned ==
    f_pc = "returned" /\ f_fn \in {"fetch_page", "make_request"}

\* C19: whatever the upstream request does (it succeeds, times out, is
\* refused, raises anything else, or the client cannot be created),
\* fetch_page and make_request return a result and raise nothing, and the
\* result of a failure carries a text that tells the cause.
C19_FetchNeverRaises ==
    FetchReturned =>
        /\ ~f_result.raised
        /\ f_result.failed =>
              f_result.error \o f_result.content # << >>

C19_Witness ==
    /\ FetchReturned
    /\ f_fn = "fetch_page"
    /\ f_where = "client"
    /\ f_result.failed
    /\ f_result.error = << >>

\* proxy_page has answered
PageAnswered == f_pc = "returned" /\ f_fn = "proxy_page"

\* C20 (as claimed): within one fetch a response whose declared
\* compression cannot be decoded is followed by exactly one retry that
\* does not ask for that compression, a response that decodes by no
\* retry, and the upstream is never contacted a third time.
C20_OneRetry ==
    (PageAnswered /\ f_first # NoResponse) =>
        /\ f_contacts <= 2
        /\ f_first.ok => f_contacts = 1
        /\ ~f_first.ok => /\ f_contacts = 2
                          /\ f_first.enc \notin RetryAcceptEncoding

\* the route has decoded the gateway URL put in place of an absolute
\* http(s) URL of a src or href attribute
DecodedAbsolute ==
    /\ rw_pc = "requested"
    /\ rw_ref.kind = "http"
    /\ rw_elem[2] \in {"src", "href"}

\* C21 (as claimed): the gateway URL the rewriter puts in place of an
\* absolute http(s) URL u of a src or href attribute, decoded by the
\* route it names, gives exactly u.
C21_RoundTrip ==
    DecodedAbsolute => rw_got.ok /\ rw_got.text = AbsPrefix \o rw_ref.tail

\* C22 (as claimed): however many passes a document has been through, it
\* holds exactly one override script block: a pass over a document that
\* holds the block already adds no second one.
C22_OneScriptBlock == rw_passes >= 1 => rw_blocks = 1

\* the references that are no locations to fetch
Untouchable(ref) == ref.kind \in {"data", "mailto", "tel", "javascript", "frag"}

\* C23 (as claimed): a reference that starts with data:, mailto:, tel: or
\* javascript:, and a fragment-only reference, is the same after the HTML
\* rewrite as before, in whatever attribute it stands.
C23_SchemesUntouched ==
    (rw_pc # "page" /\ Untouchable(rw_ref)) => rw_out = Same(rw_ref)

\* C24 (as claimed): after the HTML rewrite no href, src, action, poster
\* or data attribute holds the absolute, protocol-relative or relative
\* reference it held before: each has become a gateway URL.
C24_NoneLeftUnrewritten ==
    ( /\ rw_pc # "page"
      /\ rw_elem[2] \in {"href", "src", "action", "poster", "data"}
      /\ rw_ref.kind \in {"http", "scheme_rel", "rel"} )
    => rw_out.form \in {"proxy", "navigate", "resource"}

\* C25 (as claimed): the status a fetch route, navigate or resource,
\* answers with is the upstream response's status whenever the upstream
\* answered, whatever that status is; only a failure of the fetch gives
\* a status of the gateway's own, 500, 502 or 504.
C25_StatusMirrored ==
    f_pc = "answered" =>
        IF f_result.failed
        THEN f_status \in {500, 502, 504}
        ELSE f_status = f_resp.status

\* C26 (as claimed): an instance that acquire(s, m) assigns to a session
\* without one is of the class m asked for, whether the free scan, the
\* creation or the wait loop assigns it.
C26_ClassRespected ==
    [][ \A s \in Sessions :
          (s \notin DOMAIN session_map /\ s \in DOMAIN session_map')
          => /\ \A m \in BOOLEAN :
                   Acquire(1, s, m) => pool'[session_map'[s]].is_mobile = m
             /\ (AcquireCreated(1) \/ AcquirePoll(1))
                   => pool'[session_map'[s]].is_mobile = arg[1].mobile
      ]_vars

\* C27 (as claimed): when _create_instance fails inside acquire, the
\* caller goes on to the wait loop and is not handed the failure.
C27_CreateFailureWaits ==
    [][ \A t \in Tasks : AcquireCreateFailed(t) => pc'[t] = "waiting" ]_vars

\* C28 (as claimed): a create_session that finds the registry at
\* max_sessions with an inactive session in it returns to its caller.
C28_CreateAtLimitReturns ==
    \A t \in SmTasks : (sm_pc[t] = "create_stuck") ~> (sm_pc[t] = "idle")

\* C30 (as claimed): the sweep removes no session that get_session has
\* refreshed since the pass selected it: whatever a pass removes is still
\* expired at the moment of its removal.
C30_SweepRemovesOnlyExpired ==
    [][ (CleanupDeleted /\ Head(sweep_left) \in DOMAIN sessions)
          => Head(sweep_left) \in Expired(sm_now) ]_vars

\* C29 (as claimed): when the handling of a navigate or http_request
\* command ends with its result pushed, the session's last_activity is not
\* older than the moment the command was received.
C29_CommandRefreshesActivity ==
    [][ \A s \in HubSids :
          (PushDone(s) /\ ws_open[s] = "open"
             /\ WsOp(s, started[s]) \in fetched)
          => /\ s \in DOMAIN sessions'
             /\ sessions'[s].last_activity >= recv_at[s] ]_vars

\* end_session(s) has completed and s was not created again: s was
\* created, it is not in memory and no create_session is about to insert it
\* (under SpecSessionsStore only end_session removes from memory)
Ended(s) ==
    /\ s < next_sid
    /\ s \notin DOMAIN sessions
    /\ \A t \in SmTasks :
          ~(sm_pc[t] \in {"create_lock", "create_stuck"} /\ sm_arg[t].sid = s)

\* C31 (as claimed): once end_session(s) has completed, get_session(s)
\* finds nothing to return, also when an update of s ran while end_session
\* was under way: the store holds no session s that such an update wrote
\* (one with is_active False, as end_session had set it).
C31_EndedNotInStore ==
    \A s \in Sids :
       (redis_client /\ Ended(s))
       => ~(RedisHas(s) /\ ~redis_data[s].is_active)

\* the client of s has pinged in time so far: its last ping was received
\* less than ping_timeout after the connection was made and less than
\* ping_timeout ago (under SpecHeartbeat every command is a ping)
PingedInTime(s) ==
    /\ s \in DOMAIN connections /\ s \in DOMAIN sessions
    /\ ws_open[s] = "open"
    /\ connections[s].is_active
    /\ started[s] > 0
    /\ recv_at[s] - sessions[s].last_activity < PingTimeout
    /\ hub_now - recv_at[s] < PingTimeout

\* C32 (as claimed): a round of heartbeat_sender does not close the
\* connection of a client that has pinged in time.
C32_PingKeepsAlive ==
    [][ HeartbeatTick
          => \A s \in HubSids : PingedInTime(s) => ws_open'[s] = "open"
      ]_vars

\* what _cleanup_idle_instances tests of an instance at the instant `now`
Collectable(inst, now) ==
    ~inst.is_busy /\ idle_time(inst, now) > IdleTimeout

\* C33 (as claimed): the instance a release has just freed is not one that
\* idle cleanup collects: its idle time starts at the release.
C33_IdleCountsFromRelease ==
    [][ \A t \in Tasks, s \in Sessions :
          ( /\ Release(t, s) \/ (ReleaseResume(t) /\ arg[t].sid = s)
            /\ s \in DOMAIN session_map
            /\ session_map[s] \in DOMAIN pool )
          => ~Collectable(pool'[session_map[s]], pool_now') ]_vars

\* C34: release(s) for a session that owns an instance leaves the instance
\* not busy and without owner and removes the mapping of s, whether the
\* page was cleared or not, and touches nothing else; release(s) for a
\* session that owns none leaves the pool and the session map as they were.
C34_ReleaseFrees ==
    [][ \A t \in Tasks, s \in Sessions :
          (Release(t, s) \/ (ReleaseResume(t) /\ arg[t].sid = s))
          => IF s \in DOMAIN session_map /\ session_map[s] \in DOMAIN pool
             THEN LET i == session_map[s] IN
                  /\ DOMAIN pool' = DOMAIN pool
                  /\ ~pool'[i].is_busy
                  /\ pool'[i].session_id = NoSession
                  /\ \A j \in DOMAIN pool \ {i} : pool'[j] = pool[j]
                  /\ session_map' = DropKey(session_map, s)
             ELSE pool' = pool /\ session_map' = session_map ]_vars

\* no cleanup runs, so instances with different last_used were not all
\* made by initialize: one was marked busy or created busy by an acquire;
\* now every instance is free and no session owns any: a release freed it
C34_Witness ==
    /\ session_map = << >>
    /\ \A i \in DOMAIN pool : ~pool[i].is_busy /\ pool[i].session_id = NoSession
    /\ \E i, j \in DOMAIN pool : pool[i].last_used # pool[j].last_used
    /\ \A t \in Tasks : pc[t] = "idle"

\* C35: what a pass of idle cleanup destroys is not busy when the pass
\* runs, and after every step each session of the session map is mapped to
\* an instance that is in the pool.
C35_CleanupSparesBusy ==
    [][ /\ CleanupIdle
           => \A i \in DOMAIN pool \ DOMAIN pool' : ~pool[i].is_busy
        /\ \A s \in DOMAIN session_map' : session_map'[s] \in DOMAIN pool'
      ]_vars

\* a pass of idle cleanup has destroyed an instance, and the pool holds a
\* busy instance whose last_used is older than the idle timeout: it was
\* busy when the pass ran, and the pass kept it
C35_Witness ==
    /\ next_id - 1 > PoolSize
    /\ \E s \in DOMAIN session_map :
          /\ session_map[s] \in DOMAIN pool
          /\ pool[session_map[s]].is_busy
          /\ idle_time(pool[session_map[s]], pool_now) > IdleTimeout

\* C36: from the moment an acquire starts to create an instance until the
\* creation fails, the pool and the session map stay as they were, and the
\* failure leaves the lock free.
C36_FailedCreateLeavesNothing ==
    [][ \A t \in Tasks :
          /\ ((pc[t] = "creating" \/ pc'[t] = "creating")
                 /\ ~AcquireCreated(t))
             => pool' = pool /\ session_map' = session_map
          /\ AcquireCreateFailed(t) => lock' = NoTask
      ]_vars

\* nothing has ever been created and the pool is empty, the lock is free,
\* and a call waits for the lock: the task it waited for was creating an
\* instance and failed, and the waiting call can go on
C36_Witness ==
    /\ initialized
    /\ pool = << >>
    /\ next_id = 1
    /\ lock = NoTask
    /\ \E t \in Tasks :
          /\ pc[t] \in {"acq_lock", "rel_lock"}
          /\ \A u \in Tasks \ {t} : pc[u] = "idle"

\* fetch_page has returned from a call in which the rewriting of the HTML
\* body raised
RewriteRaised ==
    f_pc = "returned" /\ f_fn = "fetch_page" /\ f_where = "rewrite"

\* C37 (as claimed): when the HTML rewrite pass raises on a fetched
\* text/html body the fetch still succeeds and returns the upstream body
\* with the upstream status, not a failure result or an error page.
C37_RewriteFallsBack ==
    RewriteRaised =>
        /\ ~f_result.failed
        /\ f_result.status = f_resp.status
        /\ f_result.content = SuccessResult.content

\* _rewrite_css_urls has put a gateway URL in place of the reference of
\* the stylesheet
CssRewritten ==
    rw_pc # "page" /\ rw_elem \in CssForms /\ rw_out.form = "proxy"

\* C38 (as claimed): in CSS rewriting every url(...) and @import
\* reference, the form @import url(...) included, is rewritten exactly
\* once: decoding the gateway URL of the output a single time yields the
\* reference resolved against the base URL, never another gateway URL.
C38_CssRewrittenOnce ==
    CssRewritten =>
        /\ rw_wraps = 1
        /\ B64Decode(rw_out.payload) =
              [ok |-> TRUE, text |-> UrlJoin(rw_ref).text]

\* the step ends the handling of the http_request command whose id is k
\* (under SpecHttpCommands the commands that fetch are the http_request
\* ones)
HttpHandlingEnds(s, k) ==
    /\ k \in inflight[s]
    /\ k \notin inflight'[s]
    /\ WsOp(s, k) \in fetched

BlockElapsed(c) ==
    /\ resp.client = c
    /\ resp.status = 429
    /\ c \in DOMAIN blocked_until => rl_now > blocked_until[c]

\* C40: the first request of a blocked client that arrives after its
\* block-until time has elapsed is admitted: the block entry is gone and
\* no timestamp recorded before the block is left in the window, the
\* request's own is the only one.
C40_BlockEnds ==
    [][ \A c \in Clients :
          (Dispatch(c) /\ BlockElapsed(c))
          => /\ resp'.status = 200
             /\ c \notin DOMAIN blocked_until'
             /\ Purged(c) = << >>
             /\ request_history'[c] = << rl_now >>
      ]_vars

\* a client was blocked, its block-until time has elapsed, the entry and
\* the timestamps recorded before the block are still there
C40_Witness ==
    \E c \in Clients :
        /\ BlockElapsed(c)
        /\ c \in DOMAIN blocked_until
        /\ HistoryOf(c) # << >>

=============================================================================
